---- MODULE Spec2Model ----
(***************************************************************************)
(* Signal fusion and scoring engine of IREKABITI_FX.                       *)
(*                                                                         *)
(* Numbers.  The Python code computes in binary floating point; the model  *)
(* computes the same expressions in exact integer arithmetic:              *)
(*   - accumulator scores are kept in tenths (strength * 0.4 = 4 tenths    *)
(*     per strength point, the flat weights 20/25/10/5 are 200/250/100/50);*)
(*   - sentiment and news scores are kept in hundredths (0.2 = 20);        *)
(*   - prices are kept in sub-units, PriceScale sub-units per 0.00001, so  *)
(*     that round(x, 5) is a real rounding step and not the identity;      *)
(*   - the ATR is the rational num/den of sub-units;                       *)
(*   - risk_percent is kept in hundredths of a percent (round(x, 2)).      *)
(* Time is kept in seconds since Monday 00:00 UTC.                         *)
(***************************************************************************)
EXTENDS Integers, Sequences, FiniteSets, TLC

\* ------------------------------------------------------------------ bounds
PriceScale == 2      \* sub-units per 0.00001 of price
MaxClose == 6        \* largest last close of the price-level inputs, in sub-units
MaxTrSum == 8        \* largest 14-bar true-range sum of the price-level inputs
MaxTicks == 2        \* clock ticks a behaviour may take
ClockStep == 150     \* seconds per clock tick
MaxCandles == 2      \* largest number of candles in a backtest window

\* ------------------------------------------------- configuration constants
TIMEFRAMES == <<"5m", "15m", "1h", "4h">>
\* A symbol is the pair <<base, quote>> of its two currency codes
\* ("EURUSD" is <<"EUR", "USD">>, "BTCUSDT" is <<"BTC", "USDT">>).
TRADING_PAIRS_FOREX ==
    << <<"EUR", "USD">>, <<"GBP", "USD">>, <<"USD", "JPY">>, <<"USD", "CHF">>,
       <<"AUD", "USD">>, <<"USD", "CAD">>, <<"NZD", "USD">>, <<"EUR", "JPY">>,
       <<"GBP", "JPY">>, <<"EUR", "GBP">> >>
TRADING_PAIRS_CRYPTO ==
    << <<"BTC", "USDT">>, <<"ETH", "USDT">>, <<"ADA", "USDT">>, <<"DOT", "USDT">>,
       <<"LINK", "USDT">>, <<"BNB", "USDT">>, <<"SOL", "USDT">>, <<"XRP", "USDT">>,
       <<"AVAX", "USDT">>, <<"MATIC", "USDT">> >>
MIN_SIGNAL_SCORE == 70
cache_duration == 300
ATR_PERIOD == 14

\* Python None where an object is expected, None as a direction, and the
\* floating-point NaN (an integer outside every modelled range).
None == [none |-> TRUE]
NoDirection == "None"
NaN == -1000000

Range(s) == {s[i] : i \in DOMAIN s}
Abs(x) == IF x < 0 THEN -x ELSE x
Max(a, b) == IF a > b THEN a ELSE b
Min(a, b) == IF a < b THEN a ELSE b

RECURSIVE SumSeq(_)
SumSeq(s) == IF s = <<>> THEN 0 ELSE Head(s) + SumSeq(Tail(s))

RECURSIVE GCD(_, _)
GCD(a, b) == IF b = 0 THEN (IF a = 0 THEN 1 ELSE a) ELSE GCD(b, a % b)

\* First n elements of a sequence (Python s[:n]).
Take(s, n) == SubSeq(s, 1, Min(n, Len(s)))

\* Python int(x) for the rational n/d, d > 0: truncation toward zero.
IntTrunc(n, d) == IF n >= 0 THEN n \div d ELSE -((-n) \div d)

\* Python round(x) for the rational n/d, d > 0: nearest integer, ties to even.
RoundHalfEven(n, d) ==
    LET q == n \div d
        r == n % d
    IN  IF 2 * r < d THEN q
        ELSE IF 2 * r > d THEN q + 1
        ELSE IF q % 2 = 0 THEN q ELSE q + 1

\* round(x, 5) of the price n/d sub-units, as a count of 0.00001 steps.
Round5(n, d) == RoundHalfEven(n, d * PriceScale)

\* symbol.endswith("USDT")
EndsWithUSDT(symbol) == symbol[2] = "USDT"

MarketTypeOf(symbol) == IF EndsWithUSDT(symbol) THEN "crypto" ELSE "forex"

\* ---------------------------------------------------- technical sub-signal
\* ind: the latest indicator values, [rsi, macd, macd_signal, price, sma_20,
\* sma_50] (integers or NaN) and the set of detected candle patterns.
bullish_patterns == <<"Hammer", "Engulfing_Bull", "Morning_Star">>
bearish_patterns == <<"Shooting_Star", "Engulfing_Bear", "Evening_Star", "Dark_Cloud">>

RECURSIVE PatternReasons(_, _, _)
PatternReasons(names, found, side) ==
    IF names = <<>> THEN <<>>
    ELSE (IF Head(names) \in found THEN << <<Head(names), side>> >> ELSE <<>>)
         \o PatternReasons(Tail(names), found, side)

\* generate_signals with a direction rule that asks only for the higher score.
GenerateSignals_AnyLead(ind) ==
    LET rsiBull == ind.rsi # NaN /\ ind.rsi < 30
        rsiBear == ind.rsi # NaN /\ ~rsiBull /\ ind.rsi > 70
        macdOk == ind.macd # NaN /\ ind.macd_signal # NaN
        macdBull == macdOk /\ ind.macd > ind.macd_signal
        macdBear == macdOk /\ ind.macd < ind.macd_signal
        maOk == ind.sma_20 # NaN /\ ind.sma_50 # NaN
        maBull == maOk /\ ind.price > ind.sma_20 /\ ind.sma_20 > ind.sma_50
        maBear == maOk /\ ~maBull /\ ind.price < ind.sma_20 /\ ind.sma_20 < ind.sma_50
        bullPat == PatternReasons(bullish_patterns, ind.patterns, "bullish")
        bearPat == PatternReasons(bearish_patterns, ind.patterns, "bearish")
        bullish_score == (IF rsiBull THEN 2 ELSE 0) + (IF macdBull THEN 1 ELSE 0)
                         + (IF maBull THEN 1 ELSE 0) + Len(bullPat)
        bearish_score == (IF rsiBear THEN 2 ELSE 0) + (IF macdBear THEN 1 ELSE 0)
                         + (IF maBear THEN 1 ELSE 0) + Len(bearPat)
        reasons == (IF rsiBull THEN << <<"RSI oversold", "bullish">> >>
                    ELSE IF rsiBear THEN << <<"RSI overbought", "bearish">> >> ELSE <<>>)
                   \o (IF macdBull THEN << <<"MACD crossover", "bullish">> >>
                       ELSE IF macdBear THEN << <<"MACD crossover", "bearish">> >> ELSE <<>>)
                   \o (IF maBull THEN << <<"Price above MAs", "bullish">> >>
                       ELSE IF maBear THEN << <<"Price below MAs", "bearish">> >> ELSE <<>>)
                   \o bullPat \o bearPat
    IN  IF bullish_score > bearish_score
        THEN [direction |-> "BUY", strength |-> bullish_score,
              confidence |-> Min(85, 50 + bullish_score * 10), reasons |-> reasons]
        ELSE IF bearish_score > bullish_score
        THEN [direction |-> "SELL", strength |-> bearish_score,
              confidence |-> Min(85, 50 + bearish_score * 10), reasons |-> reasons]
        ELSE [direction |-> "HOLD", strength |-> 0, confidence |-> 30,
              reasons |-> Append(reasons, <<"Mixed signals", "none">>)]

GenerateSignals(ind) ==
    LET rsiBull == ind.rsi # NaN /\ ind.rsi < 30
        rsiBear == ind.rsi # NaN /\ ~rsiBull /\ ind.rsi > 70
        macdOk == ind.macd # NaN /\ ind.macd_signal # NaN
        macdBull == macdOk /\ ind.macd > ind.macd_signal
        macdBear == macdOk /\ ind.macd < ind.macd_signal
        maOk == ind.sma_20 # NaN /\ ind.sma_50 # NaN
        maBull == maOk /\ ind.price > ind.sma_20 /\ ind.sma_20 > ind.sma_50
        maBear == maOk /\ ~maBull /\ ind.price < ind.sma_20 /\ ind.sma_20 < ind.sma_50
        bullPat == PatternReasons(bullish_patterns, ind.patterns, "bullish")
        bearPat == PatternReasons(bearish_patterns, ind.patterns, "bearish")
        bullish_score == (IF rsiBull THEN 2 ELSE 0) + (IF macdBull THEN 1 ELSE 0)
                         + (IF maBull THEN 1 ELSE 0) + Len(bullPat)
        bearish_score == (IF rsiBear THEN 2 ELSE 0) + (IF macdBear THEN 1 ELSE 0)
                         + (IF maBear THEN 1 ELSE 0) + Len(bearPat)
        reasons == (IF rsiBull THEN << <<"RSI oversold", "bullish">> >>
                    ELSE IF rsiBear THEN << <<"RSI overbought", "bearish">> >> ELSE <<>>)
                   \o (IF macdBull THEN << <<"MACD crossover", "bullish">> >>
                       ELSE IF macdBear THEN << <<"MACD crossover", "bearish">> >> ELSE <<>>)
                   \o (IF maBull THEN << <<"Price above MAs", "bullish">> >>
                       ELSE IF maBear THEN << <<"Price below MAs", "bearish">> >> ELSE <<>>)
                   \o bullPat \o bearPat
    IN  IF bullish_score > bearish_score /\ bullish_score >= 2
        THEN [direction |-> "BUY", strength |-> bullish_score,
              confidence |-> Min(85, 50 + bullish_score * 10), reasons |-> reasons]
        ELSE IF bearish_score > bullish_score /\ bearish_score >= 2
        THEN [direction |-> "SELL", strength |-> bearish_score,
              confidence |-> Min(85, 50 + bearish_score * 10), reasons |-> reasons]
        ELSE [direction |-> "HOLD", strength |-> 0, confidence |-> 30,
              reasons |-> Append(reasons, <<"Mixed signals", "none">>)]

\* The result of generate_signals when it catches an exception.
GenerateSignalsError ==
    [direction |-> NoDirection, strength |-> 0, confidence |-> 0, reasons |-> <<>>]

\* A frame handed to generate_signals: len bars, ind the indicator values a
\* full lookback gives at its last bar, fails the indicator calculation that
\* raises on it ("none", "rsi", "macd", "ma", or "all" for
\* calculate_all_indicators itself).
\* The values generate_signals reads: talib fills the positions before an
\* indicator's lookback with NaN (RSI 14 needs 15 bars, MACD 12/26/9 needs 34,
\* SMA 20 and SMA 50 need 20 and 50); a calculation that raises leaves an empty
\* series, read as RSI 50 and MACD 0 = signal 0, or no moving averages, read
\* as NaN.
LatestValues(data) ==
    [rsi |-> IF data.fails = "rsi" THEN 50
             ELSE IF data.len < 15 THEN NaN ELSE data.ind.rsi,
     macd |-> IF data.fails = "macd" THEN 0
              ELSE IF data.len < 34 THEN NaN ELSE data.ind.macd,
     macd_signal |-> IF data.fails = "macd" THEN 0
                     ELSE IF data.len < 34 THEN NaN ELSE data.ind.macd_signal,
     price |-> data.ind.price,
     sma_20 |-> IF data.fails = "ma" \/ data.len < 20 THEN NaN ELSE data.ind.sma_20,
     sma_50 |-> IF data.fails = "ma" \/ data.len < 50 THEN NaN ELSE data.ind.sma_50,
     patterns |-> data.ind.patterns]

\* generate_signals on a frame: with no indicators at all (indicators['RSI']
\* raises) or no bars (iloc[-1] raises) the except branch answers.
GenerateSignalsOfFrame(data) ==
    IF data.fails = "all" \/ data.len = 0 THEN GenerateSignalsError
    ELSE GenerateSignals(LatestValues(data))

\* ----------------------------------------------------------------- ATR
\* price_data: [Close (sub-units), tr (NaN or the sum of the last ATR_PERIOD
\* true ranges in sub-units), raises (the frame lacks a column)].
\* The result is the rational num/den of sub-units.
CalculateAtr(price_data) ==
    IF price_data.raises THEN [num |-> 1000 * PriceScale, den |-> 1]
    ELSE IF price_data.tr # NaN THEN [num |-> price_data.tr, den |-> ATR_PERIOD]
    ELSE [num |-> price_data.Close, den |-> 100]

\* ----------------------------------------------------------------- fusion
\* Python d.get(k, default) on a record used as a dict.
DictGet(d, k, default) == IF k \in DOMAIN d THEN d[k] ELSE default

\* The blend taken over the sum of the source confidences instead of their
\* mean.
RawConfidence_SumOfFactors(strength10, confidence_factors) ==
    IntTrunc(7 * strength10 + 30 * SumSeq(confidence_factors), 100)

\* int(base_confidence * 0.7 + avg_factor_confidence * 0.3), before the clamp.
\* strength10 is the winning accumulator in tenths, confidence_factors the
\* recorded source confidences; the value is
\* (7 * strength10 * len + 30 * sum) / (100 * len).
RawConfidence(strength10, confidence_factors) ==
    LET n == Len(confidence_factors)
    IN  IF n = 0 THEN IntTrunc(7 * strength10 + 1500, 100)
        ELSE IntTrunc(7 * strength10 * n + 30 * SumSeq(confidence_factors), 100 * n)

\* The clamp without its lower bound.
ClampConfidence_NoFloor(c) == Min(95, c)

\* max(30, min(95, final_confidence))
ClampConfidence(c) == Max(30, Min(95, c))

FinalConfidence(strength10, confidence_factors) ==
    ClampConfidence(RawConfidence(strength10, confidence_factors))

\* Entry, take-profit and stop-loss as emitted (0.00001 steps), and
\* risk_percent (hundredths of a percent), from the last close and the ATR.
TpPrice(direction, close, atr) ==
    IF direction = "BUY" THEN Round5(2 * atr.den * close + 5 * atr.num, 2 * atr.den)
    ELSE Round5(2 * atr.den * close - 5 * atr.num, 2 * atr.den)

SlPrice(direction, close, atr) ==
    IF direction = "BUY" THEN Round5(2 * atr.den * close - 3 * atr.num, 2 * atr.den)
    ELSE Round5(2 * atr.den * close + 3 * atr.num, 2 * atr.den)

\* round(risk_distance / entry_price * 100, 2) with risk_distance = 1.5 * atr:
\* 15000 * num / (den * close) hundredths, the fraction reduced first so that
\* the product stays within TLC's integers.
RiskPercent(close, atr) ==
    LET g == GCD(atr.num, atr.den * close)
    IN  RoundHalfEven(15000 * (atr.num \div g), (atr.den * close) \div g)

\* The scoring with the sentiment and news thresholds taken non-strictly.
Scores_NonStrict(timeframe, technical_signals, ml_prediction, sentiment_data, news_data) ==
    LET primary_technical ==
            IF timeframe \in DOMAIN technical_signals
            THEN technical_signals[timeframe].signal ELSE << >>
        pdir == DictGet(primary_technical, "direction", NoDirection)
        pstr == DictGet(primary_technical, "strength", 0)
        preasons == DictGet(primary_technical, "reasons", <<>>)
        aux == DOMAIN technical_signals \ {timeframe}
        mtf_bullish == Cardinality({tf \in aux :
                           technical_signals[tf].signal.direction = "BUY"})
        mtf_bearish == Cardinality({tf \in aux :
                           technical_signals[tf].signal.direction = "SELL"})
        ml_prediction_value == DictGet(ml_prediction, "prediction", 0)
        ml_confidence == DictGet(ml_prediction, "confidence", 0)
        sentiment_score == DictGet(sentiment_data, "sentiment_score", 0)
        news_analysis == DictGet(news_data, "analysis", << >>)
        news_sentiment == DictGet(news_analysis, "overall_sentiment", 0)
        bull == (IF pdir = "BUY" THEN 4 * pstr ELSE 0)
                + (IF mtf_bullish > mtf_bearish THEN 200 ELSE 0)
                + (IF ml_prediction_value = 1 THEN 250 ELSE 0)
                + (IF sentiment_score >= 20 THEN 100 ELSE 0)
                + (IF news_sentiment >= 20 THEN 50 ELSE 0)
        bear == (IF pdir = "SELL" THEN 4 * pstr ELSE 0)
                + (IF mtf_bearish > mtf_bullish THEN 200 ELSE 0)
                + (IF ml_prediction_value = -1 THEN 250 ELSE 0)
                + (IF sentiment_score <= -20 THEN 100 ELSE 0)
                + (IF news_sentiment <= -20 THEN 50 ELSE 0)
        reasons == (IF pdir \in {"BUY", "SELL"} THEN preasons ELSE <<>>)
                   \o (IF mtf_bullish > mtf_bearish
                       THEN << <<"Multi-timeframe confirmation", "bullish">> >>
                       ELSE IF mtf_bearish > mtf_bullish
                       THEN << <<"Multi-timeframe confirmation", "bearish">> >>
                       ELSE <<>>)
                   \o (IF ml_prediction_value = 1
                       THEN << <<"ML model predicts", "bullish">> >>
                       ELSE IF ml_prediction_value = -1
                       THEN << <<"ML model predicts", "bearish">> >>
                       ELSE <<>>)
                   \o (IF sentiment_score >= 20
                       THEN << <<"Market sentiment", "bullish">> >>
                       ELSE IF sentiment_score <= -20
                       THEN << <<"Market sentiment", "bearish">> >>
                       ELSE <<>>)
                   \o (IF news_sentiment >= 20
                       THEN << <<"News sentiment", "bullish">> >>
                       ELSE IF news_sentiment <= -20
                       THEN << <<"News sentiment", "bearish">> >>
                       ELSE <<>>)
    IN  [bullish_score |-> bull, bearish_score |-> bear,
         confidence_factors |-> << DictGet(primary_technical, "confidence", 50),
                                   ml_confidence >>,
         analysis_reasons |-> reasons,
         sentiment_score |-> sentiment_score, news_sentiment |-> news_sentiment]

\* The accumulators (tenths), confidence factors and reasons after all five
\* evidence sources have been scored.
Scores(timeframe, technical_signals, ml_prediction, sentiment_data, news_data) ==
    LET primary_technical ==
            IF timeframe \in DOMAIN technical_signals
            THEN technical_signals[timeframe].signal ELSE << >>
        pdir == DictGet(primary_technical, "direction", NoDirection)
        pstr == DictGet(primary_technical, "strength", 0)
        preasons == DictGet(primary_technical, "reasons", <<>>)
        aux == DOMAIN technical_signals \ {timeframe}
        mtf_bullish == Cardinality({tf \in aux :
                           technical_signals[tf].signal.direction = "BUY"})
        mtf_bearish == Cardinality({tf \in aux :
                           technical_signals[tf].signal.direction = "SELL"})
        ml_prediction_value == DictGet(ml_prediction, "prediction", 0)
        ml_confidence == DictGet(ml_prediction, "confidence", 0)
        sentiment_score == DictGet(sentiment_data, "sentiment_score", 0)
        news_analysis == DictGet(news_data, "analysis", << >>)
        news_sentiment == DictGet(news_analysis, "overall_sentiment", 0)
        bull == (IF pdir = "BUY" THEN 4 * pstr ELSE 0)
                + (IF mtf_bullish > mtf_bearish THEN 200 ELSE 0)
                + (IF ml_prediction_value = 1 THEN 250 ELSE 0)
                + (IF sentiment_score > 20 THEN 100 ELSE 0)
                + (IF news_sentiment > 20 THEN 50 ELSE 0)
        bear == (IF pdir = "SELL" THEN 4 * pstr ELSE 0)
                + (IF mtf_bearish > mtf_bullish THEN 200 ELSE 0)
                + (IF ml_prediction_value = -1 THEN 250 ELSE 0)
                + (IF sentiment_score < -20 THEN 100 ELSE 0)
                + (IF news_sentiment < -20 THEN 50 ELSE 0)
        reasons == (IF pdir \in {"BUY", "SELL"} THEN preasons ELSE <<>>)
                   \o (IF mtf_bullish > mtf_bearish
                       THEN << <<"Multi-timeframe confirmation", "bullish">> >>
                       ELSE IF mtf_bearish > mtf_bullish
                       THEN << <<"Multi-timeframe confirmation", "bearish">> >>
                       ELSE <<>>)
                   \o (IF ml_prediction_value = 1
                       THEN << <<"ML model predicts", "bullish">> >>
                       ELSE IF ml_prediction_value = -1
                       THEN << <<"ML model predicts", "bearish">> >>
                       ELSE <<>>)
                   \o (IF sentiment_score > 20
                       THEN << <<"Market sentiment", "bullish">> >>
                       ELSE IF sentiment_score < -20
                       THEN << <<"Market sentiment", "bearish">> >>
                       ELSE <<>>)
                   \o (IF news_sentiment > 20
                       THEN << <<"News sentiment", "bullish">> >>
                       ELSE IF news_sentiment < -20
                       THEN << <<"News sentiment", "bearish">> >>
                       ELSE <<>>)
    IN  [bullish_score |-> bull, bearish_score |-> bear,
         confidence_factors |-> << DictGet(primary_technical, "confidence", 50),
                                   ml_confidence >>,
         analysis_reasons |-> reasons,
         sentiment_score |-> sentiment_score, news_sentiment |-> news_sentiment]

\* The rejection test with the boundary on the wrong side.
Rejected_Inclusive(total_score) == total_score <= 300

\* total_score < 30: the evidence is too weak for a signal.
Rejected(total_score) == total_score < 300

\* The side of the final signal and its strength (tenths).
Direction(bullish_score, bearish_score) ==
    IF bullish_score > bearish_score THEN "BUY" ELSE "SELL"

Strength(bullish_score, bearish_score) ==
    IF bullish_score > bearish_score THEN bullish_score ELSE bearish_score

\* A signal whose entry is taken from a live quote that moves with the clock
\* instead of from the price series passed in.
TradingSignalOf_LiveQuote(symbol, timeframe, sc, price_data, clock) ==
    LET direction == Direction(sc.bullish_score, sc.bearish_score)
        strength == Strength(sc.bullish_score, sc.bearish_score)
        atr == CalculateAtr(price_data)
        quote == price_data.Close + 2 * PriceScale * (clock % 4)
    IN  [symbol |-> symbol,
         direction |-> direction,
         entry_price |-> Round5(quote, 1),
         tp_price |-> TpPrice(direction, quote, atr),
         sl_price |-> SlPrice(direction, quote, atr),
         confidence |-> FinalConfidence(strength, sc.confidence_factors),
         timeframe |-> timeframe,
         risk_percent |-> RiskPercent(price_data.Close, atr),
         analysis |-> Take(sc.analysis_reasons, 3),
         timestamp |-> clock,
         market_type |-> MarketTypeOf(symbol),
         strength |-> IntTrunc(strength, 10),
         sentiment_score |-> sc.sentiment_score,
         news_impact |-> sc.news_sentiment]

\* The TradingSignal built from the scored evidence sc; clock is
\* datetime.now() at the call.
TradingSignalOf(symbol, timeframe, sc, price_data, clock) ==
    LET direction == Direction(sc.bullish_score, sc.bearish_score)
        strength == Strength(sc.bullish_score, sc.bearish_score)
        atr == CalculateAtr(price_data)
    IN  [symbol |-> symbol,
         direction |-> direction,
         entry_price |-> Round5(price_data.Close, 1),
         tp_price |-> TpPrice(direction, price_data.Close, atr),
         sl_price |-> SlPrice(direction, price_data.Close, atr),
         confidence |-> FinalConfidence(strength, sc.confidence_factors),
         timeframe |-> timeframe,
         risk_percent |-> RiskPercent(price_data.Close, atr),
         analysis |-> Take(sc.analysis_reasons, 3),
         timestamp |-> clock,
         market_type |-> MarketTypeOf(symbol),
         strength |-> IntTrunc(strength, 10),
         sentiment_score |-> sc.sentiment_score,
         news_impact |-> sc.news_sentiment]

\* _combine_analyses: None when the total evidence is below 30, else the
\* TradingSignal.
CombineAnalyses(symbol, timeframe, technical_signals, ml_prediction, sentiment_data, news_data, price_data, clock) ==
    LET sc == Scores(timeframe, technical_signals, ml_prediction,
                     sentiment_data, news_data)
    IN  IF Rejected(sc.bullish_score + sc.bearish_score) THEN None
        ELSE TradingSignalOf(symbol, timeframe, sc, price_data, clock)

\* ------------------------------------------------------- trading_signals
\* The row store_signal inserts into trading_signals: the fourteen columns it
\* binds from the signal, the autoincrement id, and the schema defaults of the
\* columns it leaves out.
InsertRow(rows, signal) ==
    [id |-> Len(rows) + 1,
     symbol |-> signal.symbol,
     direction |-> signal.direction,
     entry_price |-> signal.entry_price,
     tp_price |-> signal.tp_price,
     sl_price |-> signal.sl_price,
     confidence |-> signal.confidence,
     timeframe |-> signal.timeframe,
     risk_percent |-> signal.risk_percent,
     analysis |-> signal.analysis,
     timestamp |-> signal.timestamp,
     market_type |-> signal.market_type,
     strength |-> signal.strength,
     sentiment_score |-> signal.sentiment_score,
     news_impact |-> signal.news_impact,
     status |-> "active",
     result |-> None,
     pnl |-> None,
     closed_at |-> None]

\* The TradingSignal a read builds from a row: the fourteen columns it passes
\* to the constructor; status, result, pnl, closed_at and signal_id are not
\* passed and take the defaults of the dataclass.
SignalOfRow(row) ==
    [symbol |-> row.symbol,
     direction |-> row.direction,
     entry_price |-> row.entry_price,
     tp_price |-> row.tp_price,
     sl_price |-> row.sl_price,
     confidence |-> row.confidence,
     timeframe |-> row.timeframe,
     risk_percent |-> row.risk_percent,
     analysis |-> row.analysis,
     timestamp |-> row.timestamp,
     market_type |-> row.market_type,
     strength |-> row.strength,
     sentiment_score |-> row.sentiment_score,
     news_impact |-> row.news_impact,
     status |-> "active",
     result |-> None,
     pnl |-> None,
     closed_at |-> None,
     signal_id |-> None]

\* ORDER BY timestamp DESC over a set of rows (rows of equal timestamp in
\* rowid order).
RECURSIVE OrderByTimestampDesc(_, _)
OrderByTimestampDesc(rows, ids) ==
    IF ids = {} THEN <<>>
    ELSE LET i == CHOOSE i \in ids :
                    \A j \in ids : \/ rows[i].timestamp > rows[j].timestamp
                                   \/ /\ rows[i].timestamp = rows[j].timestamp
                                      /\ i <= j
         IN  <<rows[i]>> \o OrderByTimestampDesc(rows, ids \ {i})

\* get_recent_signals(limit)
GetRecentSignals(rows, limit) ==
    LET ordered == OrderByTimestampDesc(rows, DOMAIN rows)
    IN  [k \in 1..Min(limit, Len(ordered)) |-> SignalOfRow(ordered[k])]

\* get_signals_in_range(start_date, end_date). BETWEEN compares text: the
\* column holds the timestamp as the datetime adapter wrote it, date and time
\* separated by a space, the bounds are isoformat() strings with a "T". A row
\* of the same date as a bound sorts before the bound, so the rows selected
\* are those dated after the start date and up to the end date.
DayOf(t) == t \div 86400

GetSignalsInRange(rows, start_date, end_date) ==
    LET ids == {i \in DOMAIN rows :
                   /\ DayOf(rows[i].timestamp) > DayOf(start_date)
                   /\ DayOf(rows[i].timestamp) <= DayOf(end_date)}
        ordered == OrderByTimestampDesc(rows, ids)
    IN  [k \in 1..Len(ordered) |-> SignalOfRow(ordered[k])]

\* update_signal_result(signal_id, result, pnl) at the time clock
UpdateSignalResult(rows, signal_id, result, pnl, clock) ==
    [i \in DOMAIN rows |->
        IF rows[i].id = signal_id
        THEN [rows[i] EXCEPT !.result = result, !.pnl = pnl,
                             !.closed_at = clock, !.status = "closed"]
        ELSE rows[i]]

\* ------------------------------------------------------- session gate
HourOf(t) == (t \div 3600) % 24
WeekdayOf(t) == (t \div 86400) % 7

\* The gate with the New York session closing an hour late.
IsTradingSessionActive_LateClose(symbol, t) ==
    IF EndsWithUSDT(symbol) THEN TRUE
    ELSE IF WeekdayOf(t) >= 5 THEN FALSE
    ELSE LET london_active == 8 <= HourOf(t) /\ HourOf(t) < 17
             new_york_active == 13 <= HourOf(t) /\ HourOf(t) <= 22
         IN  london_active \/ new_york_active

\* _is_trading_session_active(symbol) when datetime.utcnow() reads t.
IsTradingSessionActive(symbol, t) ==
    IF EndsWithUSDT(symbol) THEN TRUE
    ELSE IF WeekdayOf(t) >= 5 THEN FALSE
    ELSE LET london_active == 8 <= HourOf(t) /\ HourOf(t) < 17
             new_york_active == 13 <= HourOf(t) /\ HourOf(t) < 22
         IN  london_active \/ new_york_active

\* validate_symbol / validate_timeframe: membership in the configured lists.
ValidateSymbol(symbol) ==
    symbol \in Range(TRADING_PAIRS_FOREX) \cup Range(TRADING_PAIRS_CRYPTO)

ValidateTimeframe(timeframe) == timeframe \in Range(TIMEFRAMES)

\* ------------------------------------------------------------------ state
VARIABLES
    now,           \* the wall clock, seconds since Monday 00:00 UTC
    ticks,         \* how often the clock has advanced
    fin,           \* the arguments of the fusion calls under study
    fout,          \* the result of the latest _combine_analyses(fin) call
    fprev,         \* the result of the call before it
    call,          \* the generate_signal coroutines, by slot
    signal_cache,  \* SignalGenerator.signal_cache, by (symbol, timeframe)
    store,         \* the rows of the trading_signals table, in insertion order
    sched,         \* the scheduler's generate_signals task
    scan,          \* the scan_all_markets call
    bt,            \* the backtest_signal_accuracy call
    db_read,       \* the latest read of trading_signals and what it returned
    news_cache,    \* NewsService.news_cache, by cache key
    news_call,     \* the latest get_cached_news call and what it returned
    tasks,         \* AsyncScheduler.tasks, by name
    loop           \* run_forever and the _run_task coroutines of its tick

vars == <<now, ticks, fin, fout, fprev, call, signal_cache, store, sched, scan, bt, db_read, news_cache, news_call, tasks, loop>>
fuseVars == <<fin, fout, fprev>>
dbVars == <<db_read>>
newsVars == <<news_cache, news_call>>
schedulerVars == <<tasks, loop>>
extVars == <<bt, dbVars, newsVars, schedulerVars>>
genVars == <<call, signal_cache, store, sched, scan, extVars>>

NotCalled == [notcalled |-> TRUE]

\* A result that is a TradingSignal (not None, not NotCalled).
IsSignal(s) == "direction" \in DOMAIN s

\* ------------------------------------------- inputs of the fusion study
Indicators(rsi, macd, macd_signal, price, sma_20, sma_50, patterns) ==
    [rsi |-> rsi, macd |-> macd, macd_signal |-> macd_signal, price |-> price,
     sma_20 |-> sma_20, sma_50 |-> sma_50, patterns |-> patterns]

\* Latest indicator values that generate_signals turns into BUY with strength
\* 3, 2 and 7, SELL with strength 8 and 3, and HOLD.
IndicatorSamples ==
    { Indicators(25, 1, 0, 2, NaN, NaN, {}),
      Indicators(25, NaN, NaN, 2, NaN, NaN, {}),
      Indicators(25, 1, 0, 3, 2, 1, Range(bullish_patterns)),
      Indicators(75, 0, 1, 1, 2, 3, Range(bearish_patterns)),
      Indicators(75, 0, 1, 2, NaN, NaN, {}),
      Indicators(50, 1, 0, 2, NaN, NaN, {}) }

SubSignals == {GenerateSignals(i) : i \in IndicatorSamples} \cup {GenerateSignalsError}

AuxSubSignals ==
    { GenerateSignals(Indicators(25, 1, 0, 2, NaN, NaN, {})),
      GenerateSignals(Indicators(75, 0, 1, 2, NaN, NaN, {})),
      GenerateSignals(Indicators(50, 1, 0, 2, NaN, NaN, {})) }

TimeframeSet == Range(TIMEFRAMES)

\* technical_signals for the primary timeframe tf: every auxiliary timeframe
\* carries a sub-signal, the primary one carries one or is missing.
TechnicalSignalSets(tf) ==
    LET auxSets == [TimeframeSet \ {tf} -> {[signal |-> a] : a \in AuxSubSignals}]
    IN  auxSets \cup
        UNION { { [t \in TimeframeSet |-> IF t = tf THEN [signal |-> p] ELSE a[t]]
                  : a \in auxSets } : p \in SubSignals }

MlPredictions ==
    { [prediction |-> 0, confidence |-> 0], [prediction |-> 0, confidence |-> 70] }
    \cup [prediction : {-1, 1}, confidence : {40, 70, 100}]

ScoreSamples == {-25, -20, 0, 20, 25}

StrongBuyTechnical ==
    [t \in TimeframeSet |->
        [signal |-> GenerateSignals(Indicators(25, 1, 0, 3, 2, 1, Range(bullish_patterns)))]]

StrongSellTechnical ==
    [t \in TimeframeSet |->
        [signal |-> GenerateSignals(Indicators(75, 0, 1, 1, 2, 3, Range(bearish_patterns)))]]

\* A last close of 1.10000 and the closes just above it, in sub-units.
BaseClose == 110000 * PriceScale
ClosePrices == {BaseClose + i : i \in 0..MaxClose}
TrSums == (0..MaxTrSum) \cup {14 * 200 * PriceScale, NaN}

PriceData(close, tr, raises) == [Close |-> close, tr |-> tr, raises |-> raises]

FuseArgs(symbol, timeframe, technical_signals, ml, sentiment, news, price_data) ==
    [symbol |-> symbol, timeframe |-> timeframe,
     technical_signals |-> technical_signals, ml_prediction |-> ml,
     sentiment_data |-> [sentiment_score |-> sentiment],
     news_data |-> [analysis |-> [overall_sentiment |-> news]],
     price_data |-> price_data]

\* Every evidence combination at one price, and every price at a strong BUY
\* and a strong SELL.
EvidenceInputs ==
    { FuseArgs(<<"EUR", "USD">>, "1h", ts, ml, s, n,
               PriceData(BaseClose, 14 * 200 * PriceScale, FALSE))
      : ts \in TechnicalSignalSets("1h"), ml \in MlPredictions,
        s \in ScoreSamples, n \in {-25, 10, 25} }

PriceInputs ==
    { FuseArgs(sym, "1h", IF p = 1 THEN StrongBuyTechnical ELSE StrongSellTechnical,
               [prediction |-> p, confidence |-> 100], 25 * p, 25 * p,
               PriceData(c, tr, r))
      : sym \in {<<"EUR", "USD">>, <<"BTC", "USDT">>}, p \in {1, -1},
        c \in ClosePrices, tr \in TrSums, r \in BOOLEAN }

FuseInputs == EvidenceInputs \cup PriceInputs

Fuse(a, clock) ==
    CombineAnalyses(a.symbol, a.timeframe, a.technical_signals, a.ml_prediction,
                    a.sentiment_data, a.news_data, a.price_data, clock)

\* Monday 10:00:00 UTC
StudyStart == 10 * 3600

\* ------------------------------------------------ generate_signal, state
\* The slot "sched" belongs to the scheduler's task, the "api" slots to
\* independent callers (API requests) and the "scan" slots to the tasks that
\* scan_all_markets creates.
SchedSlot == "sched"
ApiSlots == {"api1", "api2"}

\* The units of work of a scan, in the order of its two loops, each with the
\* slot of its task: a sample of all_pairs x ['1h', '4h'].
ScanTasks ==
    << [slot |-> "scan1", symbol |-> <<"EUR", "USD">>, timeframe |-> "1h"],
       [slot |-> "scan2", symbol |-> <<"EUR", "USD">>, timeframe |-> "4h"],
       [slot |-> "scan3", symbol |-> <<"BTC", "USDT">>, timeframe |-> "1h"] >>

ScanSlots == {ScanTasks[i].slot : i \in DOMAIN ScanTasks}
Slots == {SchedSlot} \cup ApiSlots \cup ScanSlots

IdleCall ==
    [pc |-> "idle", symbol |-> <<"", "">>, timeframe |-> "", gate |-> "unchecked",
     fresh_entry |-> FALSE, queries |-> 0, primary_data |-> None,
     technical_signals |-> << >>, ml_prediction |-> None, sentiment_data |-> None,
     signal |-> None, persisted |-> FALSE, cached |-> FALSE, result |-> NotCalled]

IdleSched == [pc |-> "idle", idx |-> 1, attempted |-> {}]

\* backtest_signal_accuracy before it is called: idx is the signal the loop is
\* at, data the frames fetched so far (one per signal looked at), the other
\* fields its locals and its result.
IdleBt ==
    [pc |-> "idle", historical_signals |-> <<>>, idx |-> 1, data |-> <<>>,
     successful_signals |-> 0, total_return |-> [num |-> 0, den |-> 1],
     signal_returns |-> <<>>, result |-> NotCalled]

\* run_forever before its first tick: tasks_to_run is the list of the latest
\* tick, running the _run_task coroutines it gathered, api_calls the number
\* of enable_task / disable_task calls made so far.
IdleLoop == [pc |-> "sleep", tasks_to_run |-> <<>>, running |-> << >>, api_calls |-> 0]

\* scan_all_markets before it is called: idx is the task the result loop
\* awaits, scan_results and all_signals are its locals.
IdleScan ==
    [pc |-> "idle", idx |-> 1, all_signals |-> <<>>,
     scan_results |-> [forex_count |-> 0, crypto_count |-> 0, high_confidence |-> 0,
                       total_scanned |-> 0, top_signals |-> <<>>]]

InitGen ==
    /\ call = [c \in Slots |-> IdleCall]
    /\ signal_cache = << >>
    /\ store = <<>>
    /\ sched = IdleSched
    /\ scan = IdleScan
    /\ bt = IdleBt
    /\ db_read = NotCalled
    /\ news_cache = << >>
    /\ news_call = NotCalled
    /\ tasks = << >>
    /\ loop = IdleLoop

InitFuse ==
    /\ now = StudyStart
    /\ ticks = 0
    /\ fin \in FuseInputs
    /\ fout = NotCalled
    /\ fprev = NotCalled
    /\ InitGen

\* One call of _combine_analyses on the arguments fin.
FuseCall ==
    /\ fprev = NotCalled
    /\ fout' = Fuse(fin, now)
    /\ fprev' = fout
    /\ UNCHANGED <<now, ticks, fin, genVars>>

\* The wall clock advances.
Tick ==
    /\ ticks < MaxTicks
    /\ ticks' = ticks + 1
    /\ now' = now + ClockStep
    /\ UNCHANGED <<fuseVars, genVars>>

NextFuse == FuseCall \/ Tick

SpecFuse == InitFuse /\ [][NextFuse]_vars

\* --------------------------------------- generate_signal, collaborators
\* What the market-data service can return for the primary timeframe: None,
\* a frame too short to use, a usable frame.
Frame(len, close, tr) == [len |-> len, Close |-> close, tr |-> tr, raises |-> FALSE]

PrimaryDataSamples ==
    { None,
      Frame(60, BaseClose, 14 * 200 * PriceScale),
      Frame(500, BaseClose, 14 * 200 * PriceScale) }

\* A usable frame whose last ATR_PERIOD bars did not move (High = Low = Close).
FlatFrame == Frame(500, BaseClose, 0)

\* The frames sampled for the call in slot c: the independent callers also
\* meet the flat frame.
PrimaryDataFor(c) ==
    IF c \in ApiSlots THEN PrimaryDataSamples \cup {FlatFrame} ELSE PrimaryDataSamples

BullIndicators == Indicators(25, 1, 0, 3, 2, 1, Range(bullish_patterns))
BearIndicators == Indicators(75, 0, 1, 1, 2, 3, Range(bearish_patterns))
FlatIndicators == Indicators(50, 1, 0, 2, NaN, NaN, {})

\* What get_multiple_timeframes can return: per timeframe that delivered data,
\* the number of bars and the latest indicator values of the frame.
TimeframeDataSamples ==
    { [t \in TimeframeSet |-> [len |-> 500, ind |-> BullIndicators]],
      [t \in {"5m", "15m", "4h"} |-> [len |-> 500, ind |-> BearIndicators]],
      [t \in TimeframeSet |-> [len |-> 30, ind |-> FlatIndicators]] }

\* The technical_signals dict built from the frames of at least 50 bars.
TechnicalSignals(timeframes_data) ==
    [t \in {u \in DOMAIN timeframes_data : timeframes_data[u].len >= 50} |->
        [signal |-> GenerateSignals(timeframes_data[t].ind)]]

\* --- the ML predictor
\* m: what predict_signal meets: [model ("trained" when a model is in memory,
\* loads or trains, else "none"), features_empty, raises, prediction,
\* probability (the largest class probability, in percent)].
MlOutcome(model, features_empty, raises, prediction, probability) ==
    [model |-> model, features_empty |-> features_empty, raises |-> raises,
     prediction |-> prediction, probability |-> probability]

MlNeutral == [prediction |-> 0, confidence |-> 0, probabilities |-> <<>>]

\* A predictor that answers a failure with the class it predicted last.
PredictSignal_KeepsPrediction(m) ==
    IF m.raises \/ m.model = "none" \/ m.features_empty
    THEN [prediction |-> m.prediction, confidence |-> 0, probabilities |-> <<>>]
    ELSE [prediction |-> m.prediction, confidence |-> m.probability,
          model_type |-> "ensemble"]

\* predict_signal
PredictSignal(m) ==
    IF m.raises \/ m.model = "none" \/ m.features_empty
    THEN MlNeutral
    ELSE [prediction |-> m.prediction, confidence |-> m.probability,
          model_type |-> "ensemble"]

MlOutcomes ==
    { MlOutcome("none", FALSE, FALSE, 1, 100),
      MlOutcome("trained", TRUE, FALSE, 1, 100),
      MlOutcome("trained", FALSE, TRUE, -1, 70),
      MlOutcome("trained", FALSE, FALSE, 1, 100) }

MlSamples == {PredictSignal(m) : m \in MlOutcomes}

\* --- the sentiment service
\* What get_twitter_sentiment / get_reddit_sentiment return: shares in
\* hundredths and the number of posts; SourceDefault is their answer when the
\* source is not configured, finds nothing or fails.
SourceSentiment(positive, neutral, negative, volume) ==
    [positive |-> positive, neutral |-> neutral, negative |-> negative,
     volume |-> volume]

SourceDefault == SourceSentiment(33, 34, 33, 0)

SentimentNeutral ==
    [positive |-> 33, neutral |-> 34, negative |-> 33, sentiment_score |-> 0,
     total_volume |-> 0]

\* get_combined_sentiment on o = [twitter, reddit, raises]: the volume-weighted
\* mean of the two sources (weights min(volume/100, 1) and min(volume/50, 1),
\* here multiplied by 100).  The quotients are exact on the sampled inputs.
GetCombinedSentiment(o) ==
    LET twitter_weight == Min(o.twitter.volume, 100)
        reddit_weight == 2 * Min(o.reddit.volume, 50)
        total_weight == twitter_weight + reddit_weight
        combined(key) == (o.twitter[key] * twitter_weight + o.reddit[key] * reddit_weight)
                         \div total_weight
    IN  IF o.raises \/ total_weight = 0 THEN SentimentNeutral
        ELSE [positive |-> combined("positive"), neutral |-> combined("neutral"),
              negative |-> combined("negative"),
              sentiment_score |-> combined("positive") - combined("negative"),
              total_volume |-> o.twitter.volume + o.reddit.volume]

SentimentOutcomes ==
    { [twitter |-> SourceSentiment(60, 5, 35, 100), reddit |-> SourceDefault, raises |-> TRUE],
      [twitter |-> SourceDefault, reddit |-> SourceDefault, raises |-> FALSE],
      [twitter |-> SourceSentiment(60, 5, 35, 100), reddit |-> SourceDefault, raises |-> FALSE] }

SentimentSamples == {GetCombinedSentiment(o) : o \in SentimentOutcomes}

\* --- the news service
\* analyze_news_impact on the sentiment scores (hundredths) of the articles.
\* The mean is exact on the sampled inputs.
AnalyzeNewsImpact(scores) ==
    IF scores = <<>>
    THEN [overall_sentiment |-> 0, positive_count |-> 0, negative_count |-> 0,
          neutral_count |-> 0]
    ELSE [overall_sentiment |-> IntTrunc(SumSeq(scores), Len(scores)),
          positive_count |-> Cardinality({i \in DOMAIN scores : scores[i] > 20}),
          negative_count |-> Cardinality({i \in DOMAIN scores : scores[i] < -20}),
          neutral_count |-> Cardinality({i \in DOMAIN scores :
                                            scores[i] >= -20 /\ scores[i] <= 20}),
          total_articles |-> Len(scores)]

\* get_cached_news on o = [articles (the scores of the articles the two feeds
\* delivered; none when they fail), raises], with no fresh cache entry.
GetCachedNews(o) ==
    IF o.raises THEN [articles |-> <<>>, analysis |-> << >>]
    ELSE [articles |-> Take(o.articles, 20), analysis |-> AnalyzeNewsImpact(o.articles)]

NewsOutcomes ==
    { [articles |-> <<30, 20>>, raises |-> TRUE],
      [articles |-> <<>>, raises |-> FALSE],
      [articles |-> <<30, 20>>, raises |-> FALSE] }

NewsSamples == {GetCachedNews(o) : o \in NewsOutcomes}

\* ---------------------------------------------- generate_signal, steps
CacheKey(symbol, timeframe) == <<symbol, timeframe>>

\* generate_signal returns r from slot c; its locals go out of scope.
Return(c, r) ==
    [call[c] EXCEPT !.pc = "done", !.result = r, !.primary_data = None,
                    !.technical_signals = << >>, !.ml_prediction = None,
                    !.sentiment_data = None, !.signal = None]

\* Bookkeeping at the start of a call: its arguments, and whether
\* signal_cache holds an entry for its key younger than cache_duration.
Begun(c, symbol, timeframe) ==
    LET key == CacheKey(symbol, timeframe)
    IN  [call[c] EXCEPT !.symbol = symbol, !.timeframe = timeframe,
            !.fresh_entry = /\ key \in DOMAIN signal_cache
                            /\ now - signal_cache[key].timestamp < cache_duration]

\* A start that requests the primary market data before it consults the
\* session gate.
GsStart_FetchFirst(c, symbol, timeframe) ==
    /\ call[c].pc = "idle"
    /\ LET begun == Begun(c, symbol, timeframe)
       IN  IF ~ValidateSymbol(symbol) \/ ~ValidateTimeframe(timeframe)
           THEN call' = [call EXCEPT ![c] = [begun EXCEPT !.pc = "done", !.result = None]]
           ELSE IF ~IsTradingSessionActive(symbol, now)
           THEN call' = [call EXCEPT ![c] = [begun EXCEPT !.pc = "done", !.result = None,
                                                          !.queries = 1,
                                                          !.gate = "closed"]]
           ELSE call' = [call EXCEPT ![c] = [begun EXCEPT !.pc = "primary", !.queries = 1,
                                                          !.gate = "open"]]
    /\ UNCHANGED <<signal_cache, store>>

\* The call begins: validation, the session gate and, when both pass, the
\* request for the primary timeframe's market data.
GsStart(c, symbol, timeframe) ==
    /\ call[c].pc = "idle"
    /\ LET begun == Begun(c, symbol, timeframe)
       IN  IF ~ValidateSymbol(symbol) \/ ~ValidateTimeframe(timeframe)
           THEN call' = [call EXCEPT ![c] = [begun EXCEPT !.pc = "done", !.result = None]]
           ELSE IF ~IsTradingSessionActive(symbol, now)
           THEN call' = [call EXCEPT ![c] = [begun EXCEPT !.pc = "done", !.result = None,
                                                          !.gate = "closed"]]
           ELSE call' = [call EXCEPT ![c] = [begun EXCEPT !.pc = "primary", !.queries = 1,
                                                          !.gate = "open"]]
    /\ UNCHANGED <<signal_cache, store>>

\* get_market_data returns; a usable frame leads to get_multiple_timeframes.
GsPrimaryData(c) ==
    /\ call[c].pc = "primary"
    /\ \E data \in PrimaryDataFor(c) :
          IF data = None \/ data.len < 100
          THEN call' = [call EXCEPT ![c] = Return(c, None)]
          ELSE call' = [call EXCEPT ![c].pc = "mtf", ![c].primary_data = data,
                                    ![c].queries = @ + 1]
    /\ UNCHANGED <<signal_cache, store>>

\* get_multiple_timeframes returns; technical analysis per timeframe, then the
\* ML prediction is requested.
GsTimeframes(c) ==
    /\ call[c].pc = "mtf"
    /\ \E timeframes_data \in TimeframeDataSamples :
          LET technical_signals == TechnicalSignals(timeframes_data)
          IN  IF DOMAIN technical_signals = {}
              THEN call' = [call EXCEPT ![c] = Return(c, None)]
              ELSE call' = [call EXCEPT ![c].pc = "ml",
                                        ![c].technical_signals = technical_signals,
                                        ![c].queries = @ + 1]
    /\ UNCHANGED <<signal_cache, store>>

\* predict_signal returns; the sentiment is requested.
GsMlPrediction(c) ==
    /\ call[c].pc = "ml"
    /\ \E ml \in MlSamples :
          call' = [call EXCEPT ![c].pc = "sentiment", ![c].ml_prediction = ml,
                               ![c].queries = @ + 1]
    /\ UNCHANGED <<signal_cache, store>>

\* get_combined_sentiment returns; the news is requested.
GsSentiment(c) ==
    /\ call[c].pc = "sentiment"
    /\ \E sd \in SentimentSamples :
          call' = [call EXCEPT ![c].pc = "news", ![c].sentiment_data = sd,
                               ![c].queries = @ + 1]
    /\ UNCHANGED <<signal_cache, store>>

\* A fusion step that persists every non-rejected signal before the confidence
\* threshold is applied.
GsNews_StoreBeforeThreshold(c) ==
    /\ call[c].pc = "news"
    /\ \E news_data \in NewsSamples :
          LET signal == CombineAnalyses(call[c].symbol, call[c].timeframe,
                            call[c].technical_signals, call[c].ml_prediction,
                            call[c].sentiment_data, news_data,
                            call[c].primary_data, now)
          IN  IF signal # None /\ signal.confidence >= MIN_SIGNAL_SCORE
              THEN /\ call' = [call EXCEPT ![c].pc = "store", ![c].signal = signal]
                   /\ store' = store
              ELSE /\ call' = [call EXCEPT ![c] = Return(c, None)]
                   /\ store' = IF signal # None THEN Append(store, InsertRow(store, signal)) ELSE store
    /\ UNCHANGED signal_cache

\* get_cached_news returns; fusion, the confidence threshold and, for a signal
\* that passes it, the call of store_signal.
GsNews(c) ==
    /\ call[c].pc = "news"
    /\ \E news_data \in NewsSamples :
          LET signal == CombineAnalyses(call[c].symbol, call[c].timeframe,
                            call[c].technical_signals, call[c].ml_prediction,
                            call[c].sentiment_data, news_data,
                            call[c].primary_data, now)
          IN  IF signal # None /\ signal.confidence >= MIN_SIGNAL_SCORE
              THEN call' = [call EXCEPT ![c].pc = "store", ![c].signal = signal]
              ELSE call' = [call EXCEPT ![c] = Return(c, None)]
    /\ UNCHANGED <<signal_cache, store>>

\* store_signal runs: the row is inserted and committed, or the database
\* fails and store_signal returns False.
GsStoreSignal(c) ==
    /\ call[c].pc = "store"
    /\ \E ok \in BOOLEAN :
          /\ store' = IF ok THEN Append(store, InsertRow(store, call[c].signal)) ELSE store
          /\ call' = [call EXCEPT ![c].pc = "cache", ![c].persisted = ok]
    /\ UNCHANGED signal_cache

\* After store_signal: the cache entry is written and the signal returned.
GsCacheAndReturn(c) ==
    /\ call[c].pc = "cache"
    /\ LET key == CacheKey(call[c].symbol, call[c].timeframe)
           entry == [signal |-> call[c].signal, timestamp |-> now]
       IN  signal_cache' = [k \in DOMAIN signal_cache \cup {key} |->
                               IF k = key THEN entry ELSE signal_cache[k]]
    /\ call' = [call EXCEPT ![c] = [Return(c, call[c].signal) EXCEPT !.cached = TRUE]]
    /\ UNCHANGED store

\* An exception inside the try block while the call is suspended on a
\* collaborator: caught, logged, None returned.  (store_signal catches its own
\* exceptions and returns False.)
GsException(c) ==
    /\ call[c].pc \in {"primary", "mtf", "ml", "sentiment", "news"}
    /\ call' = [call EXCEPT ![c] = Return(c, None)]
    /\ UNCHANGED <<signal_cache, store>>

GsStep(c) ==
    \/ GsPrimaryData(c)
    \/ GsTimeframes(c)
    \/ GsMlPrediction(c)
    \/ GsSentiment(c)
    \/ GsNews(c)
    \/ GsStoreSignal(c)
    \/ GsCacheAndReturn(c)
    \/ GsException(c)

\* --------------------------------------- independent callers (Spec)
\* What callers ask for: supported and unsupported symbols and timeframes.
CallArgs ==
    { <<<<"EUR", "USD">>, "1h">>, <<<<"BTC", "USDT">>, "1h">>,
      <<<<"XAU", "USD">>, "1h">>, <<<<"EUR", "USD">>, "1d">> }

\* Monday 10:00, Friday 21:55 and Saturday 12:00 UTC.
StartTimes == {10 * 3600, 4 * 86400 + 21 * 3600 + 55 * 60, 5 * 86400 + 12 * 3600}

Init ==
    /\ now \in StartTimes
    /\ ticks = 0
    /\ fin = None
    /\ fout = NotCalled
    /\ fprev = NotCalled
    /\ InitGen

\* A caller invokes generate_signal(symbol, timeframe).
ApiCall(c) ==
    /\ \E args \in CallArgs : GsStart(c, args[1], args[2])
    /\ UNCHANGED <<now, ticks, fuseVars, sched, scan, extVars>>

ApiStep(c) ==
    /\ GsStep(c)
    /\ UNCHANGED <<now, ticks, fuseVars, sched, scan, extVars>>

Next ==
    \/ \E c \in ApiSlots : ApiCall(c)
    \/ \E c \in ApiSlots : ApiStep(c)
    \/ Tick

Spec == Init /\ [][Next]_vars

\* ------------------------------- the scheduled generate_signals task
priority_pairs ==
    << <<"EUR", "USD">>, <<"GBP", "USD">>, <<"USD", "JPY">>, <<"AUD", "USD">>,
       <<"BTC", "USDT">>, <<"ETH", "USDT">>, <<"ADA", "USDT">> >>

\* _generate_signals_task begins: on a weekend, or outside 8-17 / 13-22 UTC,
\* it returns at once; otherwise it enters the loop over priority_pairs.
SchedRun ==
    /\ sched.pc = "idle"
    /\ LET hour == HourOf(now)
           weekday == WeekdayOf(now)
       IN  IF weekday >= 5
           THEN sched' = [sched EXCEPT !.pc = "done"]
           ELSE IF ~((8 <= hour /\ hour < 17) \/ (13 <= hour /\ hour < 22))
           THEN sched' = [sched EXCEPT !.pc = "done"]
           ELSE sched' = [sched EXCEPT !.pc = "loop"]
    /\ UNCHANGED <<now, ticks, fuseVars, call, signal_cache, store, scan, extVars>>

\* The loop calls generate_signal(symbol, "1h") for the next priority pair.
SchedCall ==
    /\ sched.pc = "loop"
    /\ sched.idx <= Len(priority_pairs)
    /\ GsStart(SchedSlot, priority_pairs[sched.idx], "1h")
    /\ sched' = [sched EXCEPT !.pc = "await",
                              !.attempted = @ \cup {priority_pairs[sched.idx]}]
    /\ UNCHANGED <<now, ticks, fuseVars, scan, extVars>>

\* The awaited generate_signal makes a step.
SchedStep ==
    /\ sched.pc = "await"
    /\ GsStep(SchedSlot)
    /\ UNCHANGED <<now, ticks, fuseVars, sched, scan, extVars>>

\* generate_signal has returned: the loop moves to the next pair, and the task
\* ends after the last one.
SchedResume ==
    /\ sched.pc = "await"
    /\ call[SchedSlot].pc = "done"
    /\ call' = [call EXCEPT ![SchedSlot] = IdleCall]
    /\ sched' = [sched EXCEPT !.idx = @ + 1,
                              !.pc = IF sched.idx + 1 > Len(priority_pairs)
                                     THEN "done" ELSE "loop"]
    /\ UNCHANGED <<now, ticks, fuseVars, signal_cache, store, scan, extVars>>

\* Monday 10:00, Monday 23:00, Friday 21:55 and Saturday 12:00 UTC.
SchedStartTimes ==
    {10 * 3600, 23 * 3600, 4 * 86400 + 21 * 3600 + 55 * 60, 5 * 86400 + 12 * 3600}

InitSched ==
    /\ now \in SchedStartTimes
    /\ ticks = 0
    /\ fin = None
    /\ fout = NotCalled
    /\ fprev = NotCalled
    /\ InitGen

\* One run of the task; the clock reading is taken as constant over the run.
NextSched == SchedRun \/ SchedCall \/ SchedStep \/ SchedResume

SpecSched == InitSched /\ [][NextSched]_vars

\* --------------------------- the session gate at every hour of the week
\* Every hour of the week, at its first and its last second.
WeekTimes == {d * 86400 + h * 3600 + m : d \in 0..6, h \in 0..23, m \in {0, 3599}}

InitSession ==
    /\ now \in WeekTimes
    /\ ticks = 0
    /\ fin = None
    /\ fout = NotCalled
    /\ fprev = NotCalled
    /\ InitGen

\* One caller; the clock reading is taken as constant over its call.
NextSession == ApiCall("api1") \/ ApiStep("api1")

SpecSession == InitSession /\ [][NextSession]_vars

\* ------------------------------------------------ scan_all_markets
\* all_signals.sort(key=confidence, reverse=True): a stable sort, highest
\* confidence first.
InsertByConfidence(sorted, x) ==
    LET before == {i \in DOMAIN sorted : sorted[i].confidence >= x.confidence}
        k == Cardinality(before)
    IN  SubSeq(sorted, 1, k) \o <<x>> \o SubSeq(sorted, k + 1, Len(sorted))

RECURSIVE SortByConfidence(_)
SortByConfidence(signals) ==
    IF signals = <<>> THEN <<>>
    ELSE InsertByConfidence(SortByConfidence(SubSeq(signals, 1, Len(signals) - 1)),
                            signals[Len(signals)])

\* The entry of all_signals for a signal.
ScanEntry(signal) ==
    [symbol |-> signal.symbol, direction |-> signal.direction,
     confidence |-> signal.confidence, timeframe |-> signal.timeframe,
     entry_price |-> signal.entry_price, risk_percent |-> signal.risk_percent]

\* scan_results after the awaited task returned signal.
Counted(scan_results, signal) ==
    IF IsSignal(signal)
    THEN [scan_results EXCEPT
             !.total_scanned = @ + 1,
             !.forex_count = IF signal.market_type = "forex" THEN @ + 1 ELSE @,
             !.crypto_count = IF signal.market_type = "forex" THEN @ ELSE @ + 1,
             !.high_confidence = IF signal.confidence >= 80 THEN @ + 1 ELSE @]
    ELSE [scan_results EXCEPT !.total_scanned = @ + 1]

\* scan_all_markets is called: one task per unit is created; the tasks start
\* running once the scan suspends on its first await.
ScanStart ==
    /\ scan.pc = "idle"
    /\ scan' = [scan EXCEPT !.pc = "await"]
    /\ UNCHANGED <<now, ticks, fuseVars, call, signal_cache, store, sched, extVars>>

\* The task of unit i starts generate_signal(symbol, timeframe).
ScanTaskStart(i) ==
    /\ scan.pc = "await"
    /\ GsStart(ScanTasks[i].slot, ScanTasks[i].symbol, ScanTasks[i].timeframe)
    /\ UNCHANGED <<now, ticks, fuseVars, sched, scan, extVars>>

\* The task of unit i makes a step of generate_signal.
ScanTaskStep(i) ==
    /\ GsStep(ScanTasks[i].slot)
    /\ UNCHANGED <<now, ticks, fuseVars, sched, scan, extVars>>

\* The collaborator that the task of unit i is suspended on never answers.
ScanTaskHang(i) ==
    /\ call[ScanTasks[i].slot].pc \in {"primary", "mtf", "ml", "sentiment", "news", "store"}
    /\ call' = [call EXCEPT ![ScanTasks[i].slot].pc = "hung"]
    /\ UNCHANGED <<now, ticks, fuseVars, signal_cache, store, sched, scan, extVars>>

\* A result loop that gives up at the first unit without a signal.
ScanAwait_StopAtFailure ==
    /\ scan.pc = "await"
    /\ call[ScanTasks[scan.idx].slot].pc = "done"
    /\ LET signal == call[ScanTasks[scan.idx].slot].result
           scan_results == Counted(scan.scan_results, signal)
           all_signals == IF IsSignal(signal)
                          THEN Append(scan.all_signals, ScanEntry(signal))
                          ELSE scan.all_signals
       IN  IF scan.idx < Len(ScanTasks) /\ IsSignal(signal)
           THEN scan' = [scan EXCEPT !.idx = @ + 1, !.scan_results = scan_results,
                                     !.all_signals = all_signals]
           ELSE scan' = [scan EXCEPT
                            !.pc = "done", !.idx = @ + 1,
                            !.all_signals = SortByConfidence(all_signals),
                            !.scan_results =
                                [scan_results EXCEPT
                                    !.top_signals = Take(SortByConfidence(all_signals), 10)]]
    /\ UNCHANGED <<now, ticks, fuseVars, call, signal_cache, store, sched, extVars>>

\* The result loop: the awaited task has finished; its result is counted, and
\* after the last task the signals are sorted and the result is returned.
\* (generate_signal catches every Exception, so the await does not raise.)
ScanAwait ==
    /\ scan.pc = "await"
    /\ call[ScanTasks[scan.idx].slot].pc = "done"
    /\ LET signal == call[ScanTasks[scan.idx].slot].result
           scan_results == Counted(scan.scan_results, signal)
           all_signals == IF IsSignal(signal)
                          THEN Append(scan.all_signals, ScanEntry(signal))
                          ELSE scan.all_signals
       IN  IF scan.idx < Len(ScanTasks)
           THEN scan' = [scan EXCEPT !.idx = @ + 1, !.scan_results = scan_results,
                                     !.all_signals = all_signals]
           ELSE scan' = [scan EXCEPT
                            !.pc = "done", !.idx = @ + 1,
                            !.all_signals = SortByConfidence(all_signals),
                            !.scan_results =
                                [scan_results EXCEPT
                                    !.top_signals = Take(SortByConfidence(all_signals), 10)]]
    /\ UNCHANGED <<now, ticks, fuseVars, call, signal_cache, store, sched, extVars>>

\* Monday 10:00 and Saturday 12:00 UTC.
ScanStartTimes == {10 * 3600, 5 * 86400 + 12 * 3600}

InitScan ==
    /\ now \in ScanStartTimes
    /\ ticks = 0
    /\ fin = None
    /\ fout = NotCalled
    /\ fprev = NotCalled
    /\ InitGen

\* One scan; the clock reading is taken as constant over the scan.
NextScan ==
    \/ ScanStart
    \/ \E i \in DOMAIN ScanTasks : ScanTaskStart(i)
    \/ \E i \in DOMAIN ScanTasks : ScanTaskStep(i)
    \/ \E i \in DOMAIN ScanTasks : ScanTaskHang(i)
    \/ ScanAwait

SpecScan == InitScan /\ [][NextScan]_vars

\* The event loop runs whatever is runnable: a task that can step does step.
SpecScanFair == SpecScan /\ WF_vars(NextScan)

\* ------------------------- evidence gathering with failing collaborators
\* What the three external sources meet in one generate_signal call.
DegradeMlOutcomes ==
    MlOutcomes \cup
    { MlOutcome("none", FALSE, FALSE, -1, 70),
      MlOutcome("trained", FALSE, FALSE, -1, 70),
      MlOutcome("trained", FALSE, FALSE, 0, 40) }

DegradeSentimentOutcomes ==
    SentimentOutcomes \cup
    { [twitter |-> SourceDefault, reddit |-> SourceSentiment(20, 20, 60, 50), raises |-> FALSE],
      [twitter |-> SourceSentiment(60, 0, 40, 100), reddit |-> SourceSentiment(40, 20, 40, 50),
       raises |-> FALSE] }

DegradeNewsOutcomes ==
    NewsOutcomes \cup
    { [articles |-> <<-40, -10>>, raises |-> FALSE],
      [articles |-> <<-40, -10>>, raises |-> TRUE] }

DegradeInputs ==
    [symbol : {<<"EUR", "USD">>}, timeframe : {"1h"},
     technical_signals : {StrongBuyTechnical, StrongSellTechnical},
     ml : DegradeMlOutcomes, sentiment : DegradeSentimentOutcomes,
     news : DegradeNewsOutcomes,
     price_data : {PriceData(BaseClose, 14 * 200 * PriceScale, FALSE)}]

InitDegrade ==
    /\ now = StudyStart
    /\ ticks = 0
    /\ fin \in DegradeInputs
    /\ fout = NotCalled
    /\ fprev = NotCalled
    /\ InitGen

\* The part of generate_signal from the ML prediction to the fusion step, on
\* the collaborator outcomes fin: predict_signal, get_combined_sentiment,
\* get_cached_news, then _combine_analyses.
GatherAndFuse ==
    /\ fout = NotCalled
    /\ fout' = CombineAnalyses(fin.symbol, fin.timeframe, fin.technical_signals,
                               PredictSignal(fin.ml),
                               GetCombinedSentiment(fin.sentiment),
                               GetCachedNews(fin.news), fin.price_data, now)
    /\ UNCHANGED <<now, ticks, fin, fprev, genVars>>

NextDegrade == GatherAndFuse

SpecDegrade == InitDegrade /\ [][NextDegrade]_vars

\* ------------------------------------------------ backtest of a signal
\* A return is the rational num/den; a candle is [High, Low, Close].
Ratio(num, den) == [num |-> num, den |-> den]

Candle(high, low, close) == [High |-> high, Low |-> low, Close |-> close]

RECURSIVE MaxOf(_, _)
MaxOf(price_data, column) ==
    IF Len(price_data) = 1 THEN price_data[1][column]
    ELSE Max(price_data[1][column], MaxOf(Tail(price_data), column))

RECURSIVE MinOf(_, _)
MinOf(price_data, column) ==
    IF Len(price_data) = 1 THEN price_data[1][column]
    ELSE Min(price_data[1][column], MinOf(Tail(price_data), column))

\* _calculate_signal_return: the extremes are taken over the whole window and
\* the take profit is looked at first; an exception (entry 0, no candles)
\* gives 0.
CalculateSignalReturn(price_data, entry, tp, sl, direction) ==
    IF entry = 0 \/ price_data = <<>> THEN Ratio(0, 1)
    ELSE
    LET tp_return == IF direction = "BUY" THEN Ratio(tp - entry, entry)
                     ELSE Ratio(entry - tp, entry)
        sl_return == IF direction = "BUY" THEN Ratio(sl - entry, entry)
                     ELSE Ratio(entry - sl, entry)
        max_favorable == IF direction = "BUY" THEN MaxOf(price_data, "High")
                         ELSE MinOf(price_data, "Low")
        max_adverse == IF direction = "BUY" THEN MinOf(price_data, "Low")
                       ELSE MaxOf(price_data, "High")
        current_price == price_data[Len(price_data)].Close
    IN  IF direction = "BUY"
        THEN IF max_favorable >= tp THEN tp_return
             ELSE IF max_adverse <= sl THEN sl_return
             ELSE Ratio(current_price - entry, entry)
        ELSE IF max_favorable <= tp THEN tp_return
             ELSE IF max_adverse >= sl THEN sl_return
             ELSE Ratio(entry - current_price, entry)

\* The signals under backtest: a BUY and a SELL entered at 100 (price units),
\* and for each the price levels its candles are built from: beyond, at and
\* inside its take profit and stop loss.
BacktestSignals ==
    { [direction |-> "BUY", entry |-> 100, tp |-> 105, sl |-> 97,
       levels |-> {96, 97, 100, 105, 106}],
      [direction |-> "SELL", entry |-> 100, tp |-> 95, sl |-> 103,
       levels |-> {94, 95, 100, 103, 104}] }

Candles(levels) ==
    { k \in [High : levels, Low : levels, Close : levels] :
        k.Low <= k.Close /\ k.Close <= k.High }

\* The arguments of one call: a signal under backtest and a window of n
\* candles after it.
ReturnArgs(g, w) ==
    [price_data |-> w, entry |-> g.entry, tp |-> g.tp, sl |-> g.sl,
     direction |-> g.direction]

InitReturn ==
    /\ now = StudyStart
    /\ ticks = 0
    /\ \E g \in BacktestSignals : \E n \in 1..MaxCandles :
          \E w \in [1..n -> Candles(g.levels)] : fin = ReturnArgs(g, w)
    /\ fout = NotCalled
    /\ fprev = NotCalled
    /\ InitGen

\* One call of _calculate_signal_return on the arguments fin.
CalcReturn ==
    /\ fout = NotCalled
    /\ fout' = CalculateSignalReturn(fin.price_data, fin.entry, fin.tp, fin.sl,
                                     fin.direction)
    /\ UNCHANGED <<now, ticks, fin, fprev, genVars>>

NextReturn == CalcReturn

SpecReturn == InitReturn /\ [][NextReturn]_vars

\* ------------------------------------------------ backtest_signal_accuracy
MaxSignals == 2

BACKTEST_DAYS == 30

\* Sum, comparison and extremes of returns kept as exact fractions.
AddRatio(a, b) ==
    LET n == a.num * b.den + b.num * a.den
        d == a.den * b.den
        g == GCD(Abs(n), d)
    IN  IF n = 0 THEN Ratio(0, 1) ELSE Ratio(n \div g, d \div g)

LessRatio(a, b) == a.num * b.den < b.num * a.den

RECURSIVE MaxRatio(_)
MaxRatio(rs) ==
    IF Len(rs) = 1 THEN rs[1]
    ELSE LET m == MaxRatio(Tail(rs)) IN IF LessRatio(rs[1], m) THEN m ELSE rs[1]

RECURSIVE MinRatio(_)
MinRatio(rs) ==
    IF Len(rs) = 1 THEN rs[1]
    ELSE LET m == MinRatio(Tail(rs)) IN IF LessRatio(m, rs[1]) THEN m ELSE rs[1]

\* round(num/den, 2) in hundredths. The argument is a binary float: where the
\* exact quotient lies halfway between two hundredths the float lies on one
\* side or the other of the tie, so either neighbour can be the result.
Round2(num, den) ==
    LET q == (100 * num) \div den
        r == (100 * num) % den
    IN  IF 2 * r < den THEN {q}
        ELSE IF 2 * r > den THEN {q + 1}
        ELSE {q, q + 1}

\* A stored signal of the backtest: one of BacktestSignals, created at the
\* time timestamp.
StoredSignal(g, timestamp) ==
    [symbol |-> "EURUSD", direction |-> g.direction, entry_price |-> g.entry,
     tp_price |-> g.tp, sl_price |-> g.sl, confidence |-> MIN_SIGNAL_SCORE,
     timeframe |-> "1h", risk_percent |-> 300, analysis |-> <<>>,
     timestamp |-> timestamp, market_type |-> "forex", strength |-> 6,
     sentiment_score |-> 0, news_impact |-> 0]

\* The ages of the stored signals at the backtest: inside the period, and
\* one day older than the period.
SignalAges == {2 * 3600, (BACKTEST_DAYS + 1) * 86400}

RECURSIVE StoreOf(_)
StoreOf(signals) ==
    IF signals = <<>> THEN <<>>
    ELSE LET rows == StoreOf(SubSeq(signals, 1, Len(signals) - 1))
         IN  Append(rows, InsertRow(rows, signals[Len(signals)]))

\* An hourly candle of the feed at the time time, its prices given as
\* distances from the signal's entry in the direction of its take profit.
Bar(signal, time, favorable, adverse, close) ==
    IF signal.direction = "BUY"
    THEN [time |-> time, High |-> signal.entry_price + favorable,
          Low |-> signal.entry_price + adverse,
          Close |-> signal.entry_price + close]
    ELSE [time |-> time, High |-> signal.entry_price - adverse,
          Low |-> signal.entry_price - favorable,
          Close |-> signal.entry_price - close]

\* A frame of candles, oldest first.
DataFrame(bars) == [bars |-> bars]

\* What get_market_data(symbol, "1h", market_type) answers for a signal: None,
\* an empty frame, or the latest hourly candles of the symbol, which are not
\* selected by the signal's timestamp. The frames: the take profit touched
\* only before the signal; touched after it; the stop loss touched after it;
\* neither touched and the last close above, or below, the entry.
FutureDataSamples(signal) ==
    LET before == signal.timestamp - 3600
        after == signal.timestamp + 3600
    IN  { None,
          DataFrame(<< >>),
          DataFrame(<<Bar(signal, before, 6, 0, 0), Bar(signal, after, 0, 0, 0)>>),
          DataFrame(<<Bar(signal, after, 5, 0, 5)>>),
          DataFrame(<<Bar(signal, after, 0, -3, -3)>>),
          DataFrame(<<Bar(signal, after, 2, -1, 1)>>),
          DataFrame(<<Bar(signal, after, 1, -2, -1)>>) }

\* The dictionary returned after the loop; the rounded entries in hundredths.
BacktestResult(historical_signals, successful_signals, total_return, signal_returns) ==
    LET n == Len(historical_signals)
        best_signal == IF signal_returns # <<>> THEN MaxRatio(signal_returns)
                       ELSE Ratio(0, 1)
        worst_signal == IF signal_returns # <<>> THEN MinRatio(signal_returns)
                        ELSE Ratio(0, 1)
    IN  { [total_signals |-> n,
           successful_signals |-> successful_signals,
           accuracy |-> accuracy,
           avg_return |-> avg_return,
           best_signal |-> best,
           worst_signal |-> worst,
           backtest_period_days |-> BACKTEST_DAYS] :
          accuracy \in Round2(successful_signals * 100, n),
          avg_return \in Round2(total_return.num, total_return.den * n),
          best \in Round2(best_signal.num, best_signal.den),
          worst \in Round2(worst_signal.num, worst_signal.den) }

EmptyBacktestResult ==
    [total_signals |-> 0, accuracy |-> 0, avg_return |-> 0, best_signal |-> 0,
     worst_signal |-> 0]

\* backtest_signal_accuracy up to its first candle fetch: the stored signals
\* of the period are read, and with none of them the call returns.
BtStart ==
    /\ bt.pc = "idle"
    /\ LET end_date == now
           start_date == end_date - BACKTEST_DAYS * 86400
           historical_signals == GetSignalsInRange(store, start_date, end_date)
       IN  bt' = IF historical_signals = <<>>
                 THEN [bt EXCEPT !.pc = "done", !.result = EmptyBacktestResult]
                 ELSE [bt EXCEPT !.pc = "loop",
                                 !.historical_signals = historical_signals]
    /\ UNCHANGED <<now, ticks, fuseVars, call, signal_cache, store, sched, scan>>
    /\ UNCHANGED <<dbVars, newsVars, schedulerVars>>

\* One iteration of the loop, from the answer of get_market_data to the next
\* fetch; the last iteration runs on to the return.
BtEvaluate ==
    /\ bt.pc = "loop"
    /\ LET signal == bt.historical_signals[bt.idx]
       IN  \E future_data \in FutureDataSamples(signal) :
             LET evaluated == future_data # None /\ Len(future_data.bars) > 0
                 signal_return ==
                     CalculateSignalReturn(future_data.bars, signal.entry_price,
                                           signal.tp_price, signal.sl_price,
                                           signal.direction)
                 successful_signals ==
                     IF evaluated /\ signal_return.num > 0
                     THEN bt.successful_signals + 1 ELSE bt.successful_signals
                 total_return ==
                     IF evaluated THEN AddRatio(bt.total_return, signal_return)
                     ELSE bt.total_return
                 signal_returns ==
                     IF evaluated THEN Append(bt.signal_returns, signal_return)
                     ELSE bt.signal_returns
                 looked == [bt EXCEPT !.data = Append(bt.data, future_data),
                                      !.successful_signals = successful_signals,
                                      !.total_return = total_return,
                                      !.signal_returns = signal_returns]
             IN  IF bt.idx < Len(bt.historical_signals)
                 THEN bt' = [looked EXCEPT !.idx = bt.idx + 1]
                 ELSE \E result \in BacktestResult(bt.historical_signals,
                                                   successful_signals,
                                                   total_return, signal_returns) :
                         bt' = [looked EXCEPT !.pc = "done", !.result = result]
    /\ UNCHANGED <<now, ticks, fuseVars, call, signal_cache, store, sched, scan>>
    /\ UNCHANGED <<dbVars, newsVars, schedulerVars>>

InitBacktest ==
    /\ now = StudyStart
    /\ ticks = 0
    /\ fin = NotCalled
    /\ fout = NotCalled
    /\ fprev = NotCalled
    /\ call = [c \in Slots |-> IdleCall]
    /\ signal_cache = << >>
    /\ \E n \in 0..MaxSignals :
          \E gs \in [1..n -> BacktestSignals] : \E ages \in [1..n -> SignalAges] :
             store = StoreOf([i \in 1..n |-> StoredSignal(gs[i], now - ages[i] - i)])
    /\ sched = IdleSched
    /\ scan = IdleScan
    /\ bt = IdleBt
    /\ db_read = NotCalled
    /\ news_cache = << >>
    /\ news_call = NotCalled
    /\ tasks = << >>
    /\ loop = IdleLoop

NextBacktest == BtStart \/ BtEvaluate

SpecBacktest == InitBacktest /\ [][NextBacktest]_vars

\* ------------------------------------------------ generate_signals
MinLookback == 50

FrameLengths == {0, 10, 30, MinLookback - 1, MinLookback, 10 * MinLookback}

IndicatorFailures == {"none", "rsi", "macd", "ma", "all"}

\* Full-lookback indicator values: RSI at and beyond both thresholds, MACD
\* above, below and on its signal line, the price and the two averages in
\* four orders, and any of five candle patterns (Doji is on neither list).
IndicatorInputs ==
    { Indicators(rsi, m[1], m[2], a[1], a[2], a[3], patterns) :
        rsi \in {25, 30, 50, 70, 75},
        m \in {<<1, 0>>, <<0, 1>>, <<0, 0>>},
        a \in {<<3, 2, 1>>, <<1, 2, 3>>, <<2, 2, 1>>, <<2, 3, 1>>},
        patterns \in SUBSET {"Hammer", "Morning_Star", "Shooting_Star",
                             "Dark_Cloud", "Doji"} }

InitTech ==
    /\ now = StudyStart
    /\ ticks = 0
    /\ \E len \in FrameLengths : \E ind \in IndicatorInputs :
          \E fails \in IndicatorFailures :
             fin = [len |-> len, ind |-> ind, fails |-> fails]
    /\ fout = NotCalled
    /\ fprev = NotCalled
    /\ InitGen

\* One call of generate_signals on the frame fin.
TechCall ==
    /\ fout = NotCalled
    /\ fout' = GenerateSignalsOfFrame(fin)
    /\ UNCHANGED <<now, ticks, fin, fprev, genVars>>

NextTech == TechCall

SpecTech == InitTech /\ [][NextTech]_vars

\* ------------------------------------------------ trading_signals in use
MaxRows == 2

RECENT_LIMIT == 10

\* store_signal(signal) with a signal created now; ok is whether the insert
\* went through (an exception is caught and answered with False).
DbStoreSignal ==
    /\ Len(store) < MaxRows
    /\ \E g \in BacktestSignals : \E ok \in BOOLEAN :
          store' = IF ok THEN Append(store, InsertRow(store, StoredSignal(g, now)))
                   ELSE store
    /\ UNCHANGED <<now, ticks, fuseVars, call, signal_cache, sched, scan>>
    /\ UNCHANGED <<bt, dbVars, newsVars, schedulerVars>>

\* update_signal_result(signal_id, result, pnl); pnl in hundredths.
DbUpdateSignalResult ==
    /\ \E signal_id \in 1..MaxRows : \E r \in {<<"win", 50>>, <<"loss", -30>>} :
          \E ok \in BOOLEAN :
             store' = IF ok THEN UpdateSignalResult(store, signal_id, r[1], r[2], now)
                      ELSE store
    /\ UNCHANGED <<now, ticks, fuseVars, call, signal_cache, sched, scan>>
    /\ UNCHANGED <<bt, dbVars, newsVars, schedulerVars>>

\* The rows a read selects, in the order it returns them.
RowsRead(op) ==
    IF op = "get_recent_signals"
    THEN LET ordered == OrderByTimestampDesc(store, DOMAIN store)
         IN  SubSeq(ordered, 1, Min(RECENT_LIMIT, Len(ordered)))
    ELSE LET start_date == now - BACKTEST_DAYS * 86400
             ids == {i \in DOMAIN store :
                        /\ DayOf(store[i].timestamp) > DayOf(start_date)
                        /\ DayOf(store[i].timestamp) <= DayOf(now)}
         IN  OrderByTimestampDesc(store, ids)

\* get_recent_signals() or get_signals_in_range(now - 30 days, now); a read
\* that raises answers the empty list.
DbRead ==
    /\ \E op \in {"get_recent_signals", "get_signals_in_range"} : \E ok \in BOOLEAN :
          db_read' =
              [op |-> op,
               rows |-> IF ok THEN RowsRead(op) ELSE <<>>,
               result |-> IF ~ok THEN <<>>
                          ELSE IF op = "get_recent_signals"
                          THEN GetRecentSignals(store, RECENT_LIMIT)
                          ELSE GetSignalsInRange(store, now - BACKTEST_DAYS * 86400, now)]
    /\ UNCHANGED <<now, ticks, fuseVars, call, signal_cache, store, sched, scan>>
    /\ UNCHANGED <<bt, newsVars, schedulerVars>>

InitStore ==
    /\ now = StudyStart
    /\ ticks = 0
    /\ fin = NotCalled
    /\ fout = NotCalled
    /\ fprev = NotCalled
    /\ InitGen

NextStore == DbStoreSignal \/ DbUpdateSignalResult \/ DbRead \/ Tick

SpecStore == InitStore /\ [][NextStore]_vars

\* ------------------------------------------------ get_cached_news, the cache
MaxNewsTicks == 3

cache_timeout == 300

\* "_".join(sorted(symbols or ["general"])) for the symbol lists in use.
NewsCacheKeys == {"general", "EURUSD"}

\* timedelta.seconds of a non-negative difference of d seconds: the seconds
\* within the last day; whole days are held in timedelta.days.
TimedeltaSeconds(d) == d % 86400

NewsClockSteps == {100, 200, 86400}

\* One call of get_cached_news at the time now: a cache entry that passes the
\* age test is returned; otherwise the feeds are fetched (outcome o), and
\* unless that raises the result is cached under the call's start time.
NewsGetCached ==
    /\ \E cache_key \in NewsCacheKeys :
          LET current_time == now
              hit == /\ cache_key \in DOMAIN news_cache
                     /\ TimedeltaSeconds(current_time - news_cache[cache_key].timestamp)
                           < cache_timeout
          IN  IF hit
              THEN /\ news_call' =
                         [cache_key |-> cache_key, from_cache |-> TRUE,
                          age |-> current_time - news_cache[cache_key].timestamp,
                          result |-> news_cache[cache_key].data]
                   /\ UNCHANGED news_cache
              ELSE \E o \in NewsOutcomes :
                      /\ news_call' =
                            [cache_key |-> cache_key, from_cache |-> FALSE, age |-> 0,
                             result |-> GetCachedNews(o)]
                      /\ news_cache' =
                            IF o.raises THEN news_cache
                            ELSE [k \in DOMAIN news_cache \cup {cache_key} |->
                                     IF k = cache_key
                                     THEN [data |-> GetCachedNews(o),
                                           timestamp |-> current_time]
                                     ELSE news_cache[k]]
    /\ UNCHANGED <<now, ticks, fuseVars, call, signal_cache, store, sched, scan>>
    /\ UNCHANGED <<bt, dbVars, schedulerVars>>

\* The wall clock advances between calls.
NewsTick ==
    /\ ticks < MaxNewsTicks
    /\ ticks' = ticks + 1
    /\ \E step \in NewsClockSteps : now' = now + step
    /\ UNCHANGED <<fuseVars, genVars>>

InitNews ==
    /\ now = StudyStart
    /\ ticks = 0
    /\ fin = NotCalled
    /\ fout = NotCalled
    /\ fprev = NotCalled
    /\ InitGen

NextNews == NewsGetCached \/ NewsTick

SpecNews == InitNews /\ [][NextNews]_vars

\* ------------------------------------------------ AsyncScheduler
MaxWakes == 2

MaxApiCalls == 1

\* next_run = None
NoRun == -1

\* The entry add_task makes, before its _calculate_next_run; time_str is held
\* as seconds after midnight, all tasks are in UTC.
TaskConfig(schedule_type, interval, time_str, enabled) ==
    [schedule_type |-> schedule_type, interval |-> interval, time_str |-> time_str,
     enabled |-> enabled, last_run |-> NoRun, next_run |-> NoRun,
     run_count |-> 0, error_count |-> 0]

\* _calculate_next_run at the time clock
CalculateNextRun(task, clock) ==
    IF ~task.enabled THEN [task EXCEPT !.next_run = NoRun]
    ELSE IF task.schedule_type = "interval"
    THEN [task EXCEPT !.next_run = clock + task.interval]
    ELSE IF task.schedule_type = "daily"
    THEN LET today == (clock \div 86400) * 86400 + task.time_str
         IN  [task EXCEPT !.next_run = IF today <= clock THEN today + 86400 ELSE today]
    ELSE IF task.schedule_type = "weekly"
    THEN [task EXCEPT !.next_run = clock + 7 * 86400]
    ELSE task

\* The tasks under study, in the order they were added: one every five
\* minutes, one daily at 22:30, one weekly, and one added with enabled=False.
TaskNames == <<"generate_signals", "daily_report", "weekly_cleanup", "paused">>

AddedTasks(clock) ==
    [generate_signals |-> CalculateNextRun(TaskConfig("interval", 300, 0, TRUE), clock),
     daily_report |-> CalculateNextRun(TaskConfig("daily", 0, 22 * 3600 + 1800, TRUE), clock),
     weekly_cleanup |-> CalculateNextRun(TaskConfig("weekly", 0, 3600, TRUE), clock),
     paused |-> CalculateNextRun(TaskConfig("interval", 300, 0, FALSE), clock)]

\* How long run_forever is away between two checks: its sleep of 10 s, and
\* longer stretches that bring the interval and the daily time within reach.
SleepSteps == {10, 300, 45000}

\* How long a task's coroutine takes.
TaskDurations == {1, 30}

Due(task, current_time) ==
    task.enabled /\ task.next_run # NoRun /\ current_time >= task.next_run

\* A _run_task coroutine of the tick: created by gather, then suspended in
\* the task's coroutine, then done. enabled_at_start, before and finished
\* remember the flag and the counters it met and the time it ended.
Created ==
    [phase |-> "created", enabled_at_start |-> TRUE, outcome |-> "none",
     before |-> 0, finished |-> NoRun]

\* run_forever wakes from its sleep and collects the due tasks; with some due
\* it gathers their _run_task coroutines, with none it sleeps again.
LoopWake ==
    /\ loop.pc = "sleep"
    /\ ticks < MaxWakes
    /\ ticks' = ticks + 1
    /\ \E step \in SleepSteps :
          LET current_time == now + step
              tasks_to_run == SelectSeq(TaskNames,
                                        LAMBDA name : Due(tasks[name], current_time))
          IN  /\ now' = current_time
              /\ loop' = IF tasks_to_run = <<>>
                          THEN [loop EXCEPT !.tasks_to_run = <<>>, !.running = << >>]
                          ELSE [loop EXCEPT
                                   !.pc = "gather", !.tasks_to_run = tasks_to_run,
                                   !.running = [name \in Range(tasks_to_run) |-> Created]]
    /\ UNCHANGED <<fuseVars, call, signal_cache, store, sched, scan>>
    /\ UNCHANGED <<bt, dbVars, newsVars, tasks>>

\* _run_task up to its await: the event loop starts the gathered coroutines
\* in the order of the list.
RunTaskStart(name) ==
    /\ loop.pc = "gather"
    /\ name \in DOMAIN loop.running
    /\ loop.running[name].phase = "created"
    /\ \A i, j \in DOMAIN loop.tasks_to_run :
          (i < j /\ loop.tasks_to_run[j] = name)
              => loop.running[loop.tasks_to_run[i]].phase # "created"
    /\ tasks' = [tasks EXCEPT ![name].last_run = now]
    /\ loop' = [loop EXCEPT
                   !.running[name] =
                       [@ EXCEPT !.phase = "awaiting",
                                 !.enabled_at_start = tasks[name].enabled,
                                 !.before = tasks[name].run_count
                                            + tasks[name].error_count]]
    /\ UNCHANGED <<now, ticks, fuseVars, call, signal_cache, store, sched, scan>>
    /\ UNCHANGED <<bt, dbVars, newsVars>>

\* _run_task after its await: the coroutine completed or raised; the counter
\* is updated and the next run calculated.
RunTaskFinish(name) ==
    /\ loop.pc = "gather"
    /\ name \in DOMAIN loop.running
    /\ loop.running[name].phase = "awaiting"
    /\ \E duration \in TaskDurations : \E outcome \in {"completed", "raised"} :
          LET clock == now + duration
              counted == IF outcome = "completed"
                         THEN [tasks[name] EXCEPT !.run_count = @ + 1]
                         ELSE [tasks[name] EXCEPT !.error_count = @ + 1]
          IN  /\ now' = clock
              /\ tasks' = [tasks EXCEPT ![name] = CalculateNextRun(counted, clock)]
              /\ loop' = [loop EXCEPT
                             !.running[name] =
                                 [@ EXCEPT !.phase = "done", !.outcome = outcome,
                                           !.finished = clock]]
    /\ UNCHANGED <<ticks, fuseVars, call, signal_cache, store, sched, scan>>
    /\ UNCHANGED <<bt, dbVars, newsVars>>

\* gather returns when every coroutine of the tick is done; run_forever goes
\* to sleep.
LoopGathered ==
    /\ loop.pc = "gather"
    /\ \A name \in DOMAIN loop.running : loop.running[name].phase = "done"
    /\ loop' = [loop EXCEPT !.pc = "sleep"]
    /\ UNCHANGED <<now, ticks, fuseVars, call, signal_cache, store, sched, scan>>
    /\ UNCHANGED <<bt, dbVars, newsVars, tasks>>

\* enable_task(name), called by another coroutine of the event loop.
EnableTask(name) ==
    /\ loop.api_calls < MaxApiCalls
    /\ tasks' = [tasks EXCEPT
                    ![name] = CalculateNextRun([tasks[name] EXCEPT !.enabled = TRUE], now)]
    /\ loop' = [loop EXCEPT !.api_calls = @ + 1]
    /\ UNCHANGED <<now, ticks, fuseVars, call, signal_cache, store, sched, scan>>
    /\ UNCHANGED <<bt, dbVars, newsVars>>

\* disable_task(name), called by another coroutine of the event loop.
DisableTask(name) ==
    /\ loop.api_calls < MaxApiCalls
    /\ tasks' = [tasks EXCEPT ![name].enabled = FALSE]
    /\ loop' = [loop EXCEPT !.api_calls = @ + 1]
    /\ UNCHANGED <<now, ticks, fuseVars, call, signal_cache, store, sched, scan>>
    /\ UNCHANGED <<bt, dbVars, newsVars>>

InitScheduler ==
    /\ now = StudyStart
    /\ ticks = 0
    /\ fin = NotCalled
    /\ fout = NotCalled
    /\ fprev = NotCalled
    /\ call = [c \in Slots |-> IdleCall]
    /\ signal_cache = << >>
    /\ store = <<>>
    /\ sched = IdleSched
    /\ scan = IdleScan
    /\ bt = IdleBt
    /\ db_read = NotCalled
    /\ news_cache = << >>
    /\ news_call = NotCalled
    /\ tasks = AddedTasks(now)
    /\ loop = IdleLoop

NextScheduler ==
    \/ LoopWake
    \/ \E name \in Range(TaskNames) : RunTaskStart(name)
    \/ \E name \in Range(TaskNames) : RunTaskFinish(name)
    \/ LoopGathered
    \/ \E name \in Range(TaskNames) : EnableTask(name)
    \/ \E name \in Range(TaskNames) : DisableTask(name)

SpecScheduler == InitScheduler /\ [][NextScheduler]_vars

\* =================================================================
\* Properties of the fusion step, checked under SpecFuse
\* =================================================================
FinScores ==
    Scores(fin.timeframe, fin.technical_signals, fin.ml_prediction,
           fin.sentiment_data, fin.news_data)

FinTotal == FinScores.bullish_score + FinScores.bearish_score

\* C1: every signal of the fusion step has strictly ordered emitted price
\* levels: BUY has tp_price > entry_price > sl_price, SELL has
\* sl_price > entry_price > tp_price, for every close > 0 and every ATR that
\* _calculate_atr can return.
C1_StrictLevels ==
    IsSignal(fout) =>
        /\ fout.direction = "BUY" =>
              fout.tp_price > fout.entry_price /\ fout.entry_price > fout.sl_price
        /\ fout.direction = "SELL" =>
              fout.sl_price > fout.entry_price /\ fout.entry_price > fout.tp_price

\* C2: every signal of the fusion step has an integer confidence in 30..95.
C2_ConfidenceRange ==
    IsSignal(fout) => fout.confidence \in 30..95

\* A signal whose unclamped confidence is below 30, from an ML confidence of 0
\* and a missing primary sub-signal.
C2_Witness ==
    /\ IsSignal(fout)
    /\ fin.ml_prediction.confidence = 0
    /\ fin.timeframe \notin DOMAIN fin.technical_signals
    /\ RawConfidence(Strength(FinScores.bullish_score, FinScores.bearish_score),
                     FinScores.confidence_factors) < 30
    /\ fout.confidence = 30

\* C5: total evidence below 30 gives no signal at all (None, never a HOLD
\* signal object); total evidence of 30 or more gives a BUY or SELL signal.
C5_Rejection ==
    fout # NotCalled =>
        /\ FinTotal < 300 => fout = None
        /\ FinTotal >= 300 => IsSignal(fout) /\ fout.direction \in {"BUY", "SELL"}

\* A rejection of non-empty evidence (the ML vote alone, 25).
C5_Witness == fout = None /\ FinTotal = 250

SameButTimestamp(s, t) ==
    /\ IsSignal(s) = IsSignal(t)
    /\ IsSignal(s) => [s EXCEPT !.timestamp = 0] = [t EXCEPT !.timestamp = 0]
    /\ ~IsSignal(s) => s = t

IsFusionExample ==
    /\ fin.timeframe \in DOMAIN fin.technical_signals
    /\ LET p == fin.technical_signals[fin.timeframe].signal
       IN  p.direction = "BUY" /\ p.strength = 3 /\ p.confidence = 80
    /\ Cardinality({t \in DOMAIN fin.technical_signals \ {fin.timeframe} :
                       fin.technical_signals[t].signal.direction = "BUY"}) = 2
    /\ Cardinality({t \in DOMAIN fin.technical_signals \ {fin.timeframe} :
                       fin.technical_signals[t].signal.direction = "SELL"}) = 0
    /\ fin.ml_prediction = [prediction |-> 1, confidence |-> 70]
    /\ fin.sentiment_data.sentiment_score = 25
    /\ fin.news_data.analysis.overall_sentiment = 10

\* C10: the confidence of every signal is round(strength * 0.7 +
\* avg_factor_confidence * 0.3) clamped to [30, 95]; the fusion example has
\* accumulator 56.2, direction BUY and confidence 62.
C10_RoundedConfidence ==
    IsSignal(fout) =>
        /\ LET st == Strength(FinScores.bullish_score, FinScores.bearish_score)
               cf == FinScores.confidence_factors
           IN  fout.confidence =
                   Max(30, Min(95, RoundHalfEven(7 * st * Len(cf) + 30 * SumSeq(cf),
                                                 100 * Len(cf))))
        /\ IsFusionExample =>
              /\ FinScores.bullish_score = 562
              /\ fout.direction = "BUY"
              /\ fout.confidence = 62

\* =================================================================
\* Properties of generate_signal, checked under Spec
\* =================================================================
SameKey(a, b) == a.symbol = b.symbol /\ a.timeframe = b.timeframe

\* C3: once a signal has been accepted for a (symbol, timeframe) key, every
\* later generate_signal call for that key within cache_duration is
\* suppressed: it returns no signal, stores nothing and caches nothing.
C3_SequentialDedup ==
    \A c \in Slots :
        call[c].fresh_entry =>
            /\ ~call[c].persisted
            /\ ~call[c].cached
            /\ ~IsSignal(call[c].result)

\* C4: whatever the interleaving of the generate_signal calls, at most one
\* TradingSignal per key is persisted within one cache window, also when no
\* call found a fresh cache entry at its start (the calls overlapped).
C4_AtMostOnePersisted ==
    (\A c \in Slots : ~call[c].fresh_entry) =>
        \A i, j \in DOMAIN store :
            (i < j /\ SameKey(store[i], store[j])) =>
                Abs(store[j].timestamp - store[i].timestamp) >= cache_duration

\* C7: a call that finds the session gate closed returns no signal, before
\* any market-data, ML, sentiment or news query, without a store write and
\* without a cache write.
C7_ClosedSessionShortCircuit ==
    \A c \in Slots :
        call[c].gate = "closed" =>
            /\ call[c].pc = "done"
            /\ call[c].result = None
            /\ call[c].queries = 0
            /\ ~call[c].persisted
            /\ ~call[c].cached

\* A forex call on Saturday 12:00 UTC that found the gate closed.
C7_Witness ==
    /\ WeekdayOf(now) = 5 /\ HourOf(now) = 12
    /\ \E c \in Slots :
          /\ call[c].symbol = <<"EUR", "USD">>
          /\ call[c].gate = "closed"
          /\ call[c].pc = "done"

\* =================================================================
\* Properties of the session gate, checked under SpecSession
\* =================================================================
\* C8: for every UTC weekday and hour the gate of a forex symbol is open
\* exactly when the weekday is Monday-Friday and 8 <= hour < 17 or
\* 13 <= hour < 22; it is closed on Saturday and Sunday and at the hours 0-7
\* and 22-23 of a weekday.
C8_ForexSessionRule ==
    \A c \in Slots :
        (call[c].gate # "unchecked" /\ ~EndsWithUSDT(call[c].symbol)) =>
            LET d == now \div 86400
                h == (now - d * 86400) \div 3600
            IN  /\ call[c].gate = "open" <=>
                      (d \in 0..4 /\ ((8 <= h /\ h < 17) \/ (13 <= h /\ h < 22)))
                /\ d \in {5, 6} => call[c].gate = "closed"
                /\ h \in (0..7) \cup {22, 23} => call[c].gate = "closed"

\* A forex call at Friday 22:00:00 UTC, the first second after the New York
\* window, finds the gate closed.
C8_Witness ==
    \E c \in Slots :
        /\ ~EndsWithUSDT(call[c].symbol)
        /\ now = 4 * 86400 + 22 * 3600
        /\ call[c].gate = "closed"

\* =================================================================
\* Properties of the scheduled task, checked under SpecSched
\* =================================================================
\* C9: generation for a crypto symbol is attempted at every weekday and hour
\* on every path: the gate inside generate_signal is open for it, and a run
\* of the scheduled generate_signals task calls generate_signal for each
\* crypto pair among its priority pairs.
C9_CryptoAlwaysAttempted ==
    /\ \A c \in Slots :
          (call[c].gate # "unchecked" /\ EndsWithUSDT(call[c].symbol)) =>
              call[c].gate = "open"
    /\ sched.pc = "done" =>
          \A i \in DOMAIN priority_pairs :
              EndsWithUSDT(priority_pairs[i]) => priority_pairs[i] \in sched.attempted

\* =================================================================
\* Direction and accumulation of the fusion step, checked under SpecFuse
\* =================================================================
\* C11: an accepted signal is BUY only when bullish_score > bearish_score and
\* SELL only when bearish_score > bullish_score, and its strength is the
\* winning accumulator (as the integer the signal carries), for every pair of
\* accumulators with total >= 30, equal accumulators included.
C11_DirectionIsHigherSide ==
    IsSignal(fout) =>
        /\ fout.direction = "BUY" => FinScores.bullish_score > FinScores.bearish_score
        /\ fout.direction = "SELL" => FinScores.bearish_score > FinScores.bullish_score
        /\ fout.strength =
              IntTrunc(Max(FinScores.bullish_score, FinScores.bearish_score), 10)

\* The reference weights, in tenths, read off the arguments a of a fusion
\* call: side is "BUY" for the bullish accumulator and "SELL" for the bearish.
RefAccumulator(a, side) ==
    LET ts == a.technical_signals
        sign == IF side = "BUY" THEN 1 ELSE -1
        other == IF side = "BUY" THEN "SELL" ELSE "BUY"
        aux == {t \in DOMAIN ts : t # a.timeframe}
        agree == Cardinality({t \in aux : ts[t].signal.direction = side})
        against == Cardinality({t \in aux : ts[t].signal.direction = other})
        primary == IF a.timeframe \in DOMAIN ts /\ ts[a.timeframe].signal.direction = side
                   THEN 4 * ts[a.timeframe].signal.strength ELSE 0
        mtf == IF agree > against THEN 200 ELSE 0
        ml == IF a.ml_prediction.prediction = sign THEN 250 ELSE 0
        sentiment == IF sign * a.sentiment_data.sentiment_score > 20 THEN 100 ELSE 0
        news == IF sign * a.news_data.analysis.overall_sentiment > 20 THEN 50 ELSE 0
    IN  primary + mtf + ml + sentiment + news

\* C12: the accumulators of every fusion call are the reference weights:
\* primary strength * 0.4 on its own side, a flat 20 for the strict majority of
\* the auxiliary timeframes (primary excluded), 25 for ML 1 / -1, 10 for
\* sentiment beyond +-0.2 and 5 for news beyond +-0.2 (both strict); the total
\* evidence is their sum, and it decides rejection and the emitted strength.
C12_ReferenceWeights ==
    fout # NotCalled =>
        LET bull == RefAccumulator(fin, "BUY")
            bear == RefAccumulator(fin, "SELL")
        IN  /\ FinScores.bullish_score = bull
            /\ FinScores.bearish_score = bear
            /\ FinTotal = bull + bear
            /\ (fout = None) <=> (bull + bear < 300)
            /\ IsSignal(fout) => fout.strength = IntTrunc(Max(bull, bear), 10)

\* A fusion call with sentiment exactly 0.2 and news -0.25 on a primary BUY:
\* the sentiment adds nothing, the news adds 5 to the bearish side.
C12_Witness ==
    /\ IsSignal(fout)
    /\ fin.sentiment_data.sentiment_score = 20
    /\ fin.news_data.analysis.overall_sentiment = -25
    /\ fin.timeframe \in DOMAIN fin.technical_signals
    /\ fin.technical_signals[fin.timeframe].signal.direction = "BUY"
    /\ FinScores.bearish_score % 100 = 50

\* =================================================================
\* The validation gate, checked under Spec
\* =================================================================
\* validate_price on an emitted price (0.00001 steps): positive and within
\* [0.000001, 1000000].
ValidatePrice(price) ==
    /\ price > 0
    /\ \/ price \div 100000 < 1000000
       \/ price \div 100000 = 1000000 /\ price % 100000 = 0

\* validate_signal_data on a TradingSignal: the set of its error messages.
ValidateSignalData(signal_data) ==
    LET entry == signal_data.entry_price
        tp == signal_data.tp_price
        sl == signal_data.sl_price
        direction == signal_data.direction
    IN  (IF ~ValidateSymbol(signal_data.symbol) THEN {"Invalid symbol"} ELSE {})
        \cup (IF direction \notin {"BUY", "SELL", "HOLD"} THEN {"Invalid direction"} ELSE {})
        \cup (IF ~ValidatePrice(entry) THEN {"Invalid entry price"} ELSE {})
        \cup (IF ~ValidatePrice(tp) THEN {"Invalid take profit price"} ELSE {})
        \cup (IF ~ValidatePrice(sl) THEN {"Invalid stop loss price"} ELSE {})
        \cup (IF signal_data.confidence \notin 0..100
              THEN {"Invalid confidence score"} ELSE {})
        \cup (IF ~ValidateTimeframe(signal_data.timeframe) THEN {"Invalid timeframe"} ELSE {})
        \cup (IF signal_data.risk_percent < 0 \/ signal_data.risk_percent > 1000
              THEN {"Invalid risk percentage"} ELSE {})
        \cup (IF direction = "BUY" /\ tp <= entry
              THEN {"Take profit must be above entry price for BUY signal"} ELSE {})
        \cup (IF direction = "BUY" /\ sl >= entry
              THEN {"Stop loss must be below entry price for BUY signal"} ELSE {})
        \cup (IF direction = "SELL" /\ tp >= entry
              THEN {"Take profit must be below entry price for SELL signal"} ELSE {})
        \cup (IF direction = "SELL" /\ sl <= entry
              THEN {"Stop loss must be above entry price for SELL signal"} ELSE {})

\* C13: every signal that generate_signal returns or stores passes
\* validate_signal_data with an empty error list.
C13_ValidationGate ==
    /\ \A i \in DOMAIN store : ValidateSignalData(store[i]) = {}
    /\ \A c \in Slots :
          IsSignal(call[c].result) => ValidateSignalData(call[c].result) = {}

\* =================================================================
\* Side effects of generate_signal, checked under Spec
\* =================================================================
\* C14: in generate_signal the store write and the signal_cache write are
\* made only by a call whose fusion step returned a non-rejected signal that
\* passed the threshold, and a call that returns None has left the store and
\* signal_cache as they were.
C14_SideEffectsOnlyOnAcceptance ==
    [][ /\ store' # store =>
              /\ Len(store') = Len(store) + 1
              /\ \E c \in Slots :
                    /\ call[c].pc = "store"
                    /\ IsSignal(call[c].signal)
                    /\ store' = Append(store, InsertRow(store, call[c].signal))
        /\ signal_cache' # signal_cache =>
              \E c \in Slots :
                  /\ call[c].pc = "cache"
                  /\ IsSignal(call[c].signal)
                  /\ call'[c].result = call[c].signal
        /\ \A c \in Slots :
              (call'[c].pc = "done" /\ call'[c].result = None) =>
                  ~call'[c].persisted /\ ~call'[c].cached
      ]_vars

\* One call has gone through every collaborator and returned None while the
\* row and the cache entry of another, accepted call are in place.
C14_Witness ==
    \E c, d \in Slots :
        /\ c # d
        /\ call[c].pc = "done" /\ call[c].result = None /\ call[c].queries = 5
        /\ call[d].persisted /\ call[d].cached
        /\ Len(store) = 1
        /\ DOMAIN signal_cache = {CacheKey(call[d].symbol, call[d].timeframe)}

\* =================================================================
\* Properties of scan_all_markets, checked under SpecScan / SpecScanFair
\* =================================================================
\* The units of the scan whose generate_signal returned a signal.
ScanSignalUnits == {i \in DOMAIN ScanTasks : IsSignal(call[ScanTasks[i].slot].result)}

\* C15: whatever subset of units fails, a scan that returns has awaited and
\* counted every unit: it returns a normal result, total_scanned is the number
\* of units, and forex_count + crypto_count is the number of units that
\* produced a signal.
C15_FailureIsolation ==
    scan.pc = "done" =>
        /\ \A i \in DOMAIN ScanTasks : call[ScanTasks[i].slot].pc = "done"
        /\ "error" \notin DOMAIN scan.scan_results
        /\ scan.scan_results.total_scanned = Len(ScanTasks)
        /\ scan.scan_results.forex_count + scan.scan_results.crypto_count
              = Cardinality(ScanSignalUnits)
        /\ Len(scan.scan_results.top_signals) = Cardinality(ScanSignalUnits)

\* A finished scan whose first unit failed during data retrieval (no data, or
\* an exception in a collaborator) and whose last unit produced a signal.
C15_Witness ==
    /\ scan.pc = "done"
    /\ call[ScanTasks[1].slot].result = None
    /\ call[ScanTasks[1].slot].gate = "open"
    /\ call[ScanTasks[1].slot].queries \in 1..4
    /\ IsSignal(call[ScanTasks[Len(ScanTasks)].slot].result)
    /\ scan.scan_results.crypto_count = 1

\* C16: a scan terminates even when a per-unit task never completes: once a
\* task hangs, the scan still reaches its return with what was collected.
C16_ScanDeadline ==
    (\E i \in DOMAIN ScanTasks : call[ScanTasks[i].slot].pc = "hung")
        ~> (scan.pc = "done")

\* =================================================================
\* Failing collaborators, checked under SpecDegrade
\* =================================================================
MlFailed == fin.ml.raises \/ fin.ml.model = "none"
SentimentFailed ==
    fin.sentiment.raises \/ (fin.sentiment.twitter.volume = 0 /\ fin.sentiment.reddit.volume = 0)
NewsFailed == fin.news.raises \/ fin.news.articles = <<>>

\* The accumulators when the sources in failed are left out of the evidence
\* altogether.
ScoresWithout(failed) ==
    Scores(fin.timeframe, fin.technical_signals,
           IF "ml" \in failed THEN << >> ELSE PredictSignal(fin.ml),
           IF "sentiment" \in failed THEN << >> ELSE GetCombinedSentiment(fin.sentiment),
           IF "news" \in failed THEN << >> ELSE GetCachedNews(fin.news))

\* C17: a predictor without a usable model, or one that raises, returns
\* prediction 0 with confidence 0; failed sentiment or news retrieval yields
\* sentiment_score 0 and overall news sentiment 0; a failing source adds
\* nothing to either accumulator, and generate_signal goes on to the fusion
\* step, whose result is the one for the remaining evidence.
C17_NeutralDegradation ==
    fout # NotCalled =>
        LET ml == PredictSignal(fin.ml)
            sd == GetCombinedSentiment(fin.sentiment)
            nd == GetCachedNews(fin.news)
            failed == (IF MlFailed THEN {"ml"} ELSE {})
                      \cup (IF SentimentFailed THEN {"sentiment"} ELSE {})
                      \cup (IF NewsFailed THEN {"news"} ELSE {})
            sc == ScoresWithout({})
            rest == ScoresWithout(failed)
        IN  /\ MlFailed => ml.prediction = 0 /\ ml.confidence = 0
            /\ SentimentFailed => sd.sentiment_score = 0
            /\ NewsFailed =>
                  DictGet(DictGet(nd, "analysis", << >>), "overall_sentiment", 0) = 0
            /\ sc.bullish_score = rest.bullish_score
            /\ sc.bearish_score = rest.bearish_score
            /\ (fout = None) <=> (rest.bullish_score + rest.bearish_score < 300)
            /\ IsSignal(fout) =>
                  /\ fout.direction = Direction(rest.bullish_score, rest.bearish_score)
                  /\ fout.strength =
                        IntTrunc(Strength(rest.bullish_score, rest.bearish_score), 10)

\* The predictor raised and the news retrieval raised, and the fusion step
\* still produced a signal from the technical and sentiment evidence.
C17_Witness ==
    /\ IsSignal(fout)
    /\ fin.ml.raises /\ fin.ml.prediction = -1
    /\ fin.news.raises /\ fin.news.articles # <<>>
    /\ ~SentimentFailed
    /\ fout.direction = "BUY"
    /\ fout.news_impact = 0

\* =================================================================
\* ATR and risk of the fusion step, checked under SpecFuse
\* =================================================================
\* C18: whenever the ATR is undefined or unusable (the rolling mean is NaN, the
\* computation raises, or the value is 0) the fusion step sizes the levels with
\* close * 0.01, so the ATR behind tp_price and sl_price is always strictly
\* positive.
C18_AtrFallback ==
    IsSignal(fout) =>
        LET atr == CalculateAtr(fin.price_data)
            close == fin.price_data.Close
            unusable == \/ fin.price_data.raises
                        \/ fin.price_data.tr = NaN
                        \/ fin.price_data.tr = 0
        IN  /\ unusable => 100 * atr.num = close * atr.den
            /\ atr.num > 0
            /\ fout.tp_price = TpPrice(fout.direction, close, atr)
            /\ fout.sl_price = SlPrice(fout.direction, close, atr)

\* C19: risk_percent of every signal is |entry_price - sl_price| / entry_price
\* * 100 of its own emitted entry_price and sl_price, within 1e-6.  With
\* risk_percent in hundredths of a percent and prices e, s in 0.00001 steps
\* this is |risk_percent * e - 10000 * |e - s|| <= e / 10000.
C19_RiskPercentOfEmittedLevels ==
    IsSignal(fout) =>
        Abs(fout.risk_percent * fout.entry_price
            - 10000 * Abs(fout.entry_price - fout.sl_price))
          <= fout.entry_price \div 10000

\* =================================================================
\* The backtest of one signal, checked under SpecReturn
\* =================================================================
\* The candles of the window in which the favorable extreme reaches tp, and
\* those in which the adverse extreme reaches sl.
TpCandles ==
    {i \in DOMAIN fin.price_data :
        IF fin.direction = "BUY" THEN fin.price_data[i].High >= fin.tp
        ELSE fin.price_data[i].Low <= fin.tp}

SlCandles ==
    {i \in DOMAIN fin.price_data :
        IF fin.direction = "BUY" THEN fin.price_data[i].Low <= fin.sl
        ELSE fin.price_data[i].High >= fin.sl}

First(candles) == CHOOSE i \in candles : \A j \in candles : i <= j

TpReturn ==
    IF fin.direction = "BUY" THEN Ratio(fin.tp - fin.entry, fin.entry)
    ELSE Ratio(fin.entry - fin.tp, fin.entry)

SlReturn ==
    IF fin.direction = "BUY" THEN Ratio(fin.sl - fin.entry, fin.entry)
    ELSE Ratio(fin.entry - fin.sl, fin.entry)

\* C20: the outcome is the take-profit return only if tp is reached in a
\* candle no later than the first candle that reaches sl; if sl is reached
\* first, or only sl is reached, the outcome is the stop-loss return, also
\* when both levels are reached at different candles.
C20_HitOrdering ==
    fout # NotCalled =>
        /\ fout = TpReturn =>
              /\ TpCandles # {}
              /\ SlCandles # {} => First(TpCandles) <= First(SlCandles)
        /\ (SlCandles # {} /\ (TpCandles = {} \/ First(SlCandles) < First(TpCandles)))
              => fout = SlReturn

\* =================================================================
\* backtest_signal_accuracy, checked under SpecBacktest
\* =================================================================
Evaluated(future_data) == future_data # None /\ Len(future_data.bars) > 0

\* The place in signal_returns of the return of the i-th signal.
ReturnIndex(i) == Cardinality({j \in 1..i : Evaluated(bt.data[j])})

LaterBars(bars, timestamp) == SelectSeq(bars, LAMBDA b : b.time > timestamp)

\* C21: the return recorded for a stored signal is the one its candles after
\* the signal's own timestamp give: a take profit or stop loss touched in a
\* candle before the signal was created does not determine the outcome.
C21_OnlyLaterCandles ==
    \A i \in DOMAIN bt.data :
        Evaluated(bt.data[i]) =>
            LET signal == bt.historical_signals[i]
                later == LaterBars(bt.data[i].bars, signal.timestamp)
            IN  bt.signal_returns[ReturnIndex(i)] =
                    CalculateSignalReturn(later, signal.entry_price,
                                          signal.tp_price, signal.sl_price,
                                          signal.direction)

EvaluatedSignals == {i \in DOMAIN bt.data : Evaluated(bt.data[i])}

TpReturnOf(signal) ==
    IF signal.direction = "BUY"
    THEN Ratio(signal.tp_price - signal.entry_price, signal.entry_price)
    ELSE Ratio(signal.entry_price - signal.tp_price, signal.entry_price)

TpHits ==
    {i \in EvaluatedSignals :
        bt.signal_returns[ReturnIndex(i)] = TpReturnOf(bt.historical_signals[i])}

\* C22: the reported accuracy is the number of evaluated signals whose
\* outcome is a take-profit hit over the number of evaluated signals (as a
\* percentage), and the reported average return is the sum of the evaluated
\* returns over the same number: a signal that hit neither level is not a
\* hit whatever its unrealized return, and a signal without candles is not in
\* the denominator.
C22_PureReduction ==
    (bt.pc = "done" /\ EvaluatedSignals # {}) =>
        LET n == Cardinality(EvaluatedSignals)
        IN  /\ bt.result.accuracy \in Round2(Cardinality(TpHits) * 100, n)
            /\ bt.result.avg_return
                  \in Round2(bt.total_return.num, bt.total_return.den * n)

\* =================================================================
\* generate_signals, checked under SpecTech
\* =================================================================
\* The scores of the rule, counted from the values the call read.
BullishScore ==
    LET v == LatestValues(fin)
    IN  (IF v.rsi # NaN /\ v.rsi < 30 THEN 2 ELSE 0)
        + (IF v.macd # NaN /\ v.macd_signal # NaN /\ v.macd > v.macd_signal
           THEN 1 ELSE 0)
        + (IF v.sma_20 # NaN /\ v.sma_50 # NaN /\ v.price > v.sma_20
              /\ v.sma_20 > v.sma_50 THEN 1 ELSE 0)
        + Cardinality(v.patterns \cap Range(bullish_patterns))

BearishScore ==
    LET v == LatestValues(fin)
    IN  (IF v.rsi # NaN /\ v.rsi > 70 THEN 2 ELSE 0)
        + (IF v.macd # NaN /\ v.macd_signal # NaN /\ v.macd < v.macd_signal
           THEN 1 ELSE 0)
        + (IF v.sma_20 # NaN /\ v.sma_50 # NaN /\ v.price < v.sma_20
              /\ v.sma_20 < v.sma_50 THEN 1 ELSE 0)
        + Cardinality(v.patterns \cap Range(bearish_patterns))

Scored == fout # NotCalled /\ fin.fails # "all" /\ fin.len > 0

\* C23: a call of generate_signals that reaches its scoring returns BUY
\* exactly when the bullish score is higher and at least 2, SELL exactly when
\* the bearish score is higher and at least 2, and HOLD otherwise; for BUY and
\* SELL strength is the winning score and confidence min(85, 50 + 10 *
\* strength), for HOLD confidence is 30. RSI below 30 or above 70 counts 2,
\* MACD off its signal line 1, price and averages in order 1, each matched
\* pattern 1.
C23_SubSignalRule ==
    Scored =>
        /\ fout.direction = "BUY" <=>
              (BullishScore > BearishScore /\ BullishScore >= 2)
        /\ fout.direction = "SELL" <=>
              (BearishScore > BullishScore /\ BearishScore >= 2)
        /\ fout.direction \in {"BUY", "SELL", "HOLD"}
        /\ fout.direction = "BUY" =>
              /\ fout.strength = BullishScore
              /\ fout.confidence = Min(85, 50 + fout.strength * 10)
        /\ fout.direction = "SELL" =>
              /\ fout.strength = BearishScore
              /\ fout.confidence = Min(85, 50 + fout.strength * 10)
        /\ fout.direction = "HOLD" => fout.confidence = 30

\* A call whose only evidence is one bullish point has answered HOLD.
C23_Witness ==
    /\ Scored
    /\ BullishScore = 1
    /\ BearishScore = 0
    /\ fout.direction = "HOLD"

\* C24: on a frame of fewer than 50 bars, or when the indicator calculation
\* fails, generate_signals returns direction HOLD, confidence 0 and no
\* reasons.
C24_InsufficientLookback ==
    (fout # NotCalled /\ (fin.len < MinLookback \/ fin.fails # "none")) =>
        /\ fout.direction = "HOLD"
        /\ fout.confidence = 0
        /\ fout.reasons = <<>>

\* =================================================================
\* The trading_signals table, checked under SpecStore
\* =================================================================
RoundTripFields ==
    {"symbol", "direction", "entry_price", "tp_price", "sl_price", "confidence",
     "timeframe", "risk_percent", "analysis", "timestamp", "market_type",
     "strength", "sentiment_score", "news_impact", "status", "result", "pnl"}

\* C25: every signal a read returns carries, for each listed field including
\* status, result and pnl, the value of the row it was read from; so a read
\* after update_signal_result returns the updated result and pnl and the
\* status 'closed'.
C25_StoreRoundTrip ==
    db_read # NotCalled =>
        /\ Len(db_read.result) = Len(db_read.rows)
        /\ \A k \in DOMAIN db_read.rows : \A f \in RoundTripFields :
              db_read.result[k][f] = db_read.rows[k][f]

\* =================================================================
\* The analysis field, checked under SpecFuse
\* =================================================================
\* The weight of the evidence source a reason comes from; the rules of the
\* primary technical sub-signal rank below the four flat sources.
ReasonWeight(reason) ==
    IF reason[1] = "ML model predicts" THEN 25
    ELSE IF reason[1] = "Multi-timeframe confirmation" THEN 20
    ELSE IF reason[1] = "Market sentiment" THEN 10
    ELSE IF reason[1] = "News sentiment" THEN 5
    ELSE 0

\* C26: the analysis of a signal has at most three reasons, and no
\* contributing reason left out of it has a higher weight than one that is in
\* it (ML 25, multi-timeframe 20, sentiment 10, news 5, then the primary
\* technical rules).
C26_TopWeightReasons ==
    IsSignal(fout) =>
        LET all == FinScores.analysis_reasons
            kept == Range(fout.analysis)
            dropped == Range(all) \ kept
        IN  /\ Len(fout.analysis) <= 3
            /\ kept \subseteq Range(all)
            /\ \A d \in dropped : \A k \in kept : ReasonWeight(k) >= ReasonWeight(d)

\* =================================================================
\* Persistence of returned signals, checked under Spec
\* =================================================================
Persisted(signal) ==
    \E i \in DOMAIN store : store[i] = [InsertRow(store, signal) EXCEPT !.id = i]

\* C27: every signal generate_signal has returned, and every signal held in
\* signal_cache, is a row of the store: when store_signal fails the signal
\* is neither returned nor cached.
C27_ReturnedImpliesPersisted ==
    /\ \A c \in Slots : IsSignal(call[c].result) => Persisted(call[c].result)
    /\ \A k \in DOMAIN signal_cache : Persisted(signal_cache[k].signal)

\* =================================================================
\* Confidence of emitted signals, checked under SpecScan
\* =================================================================
HIGH_CONFIDENCE == 80

\* C28: every signal generate_signal returns has a confidence of at least
\* MIN_SIGNAL_SCORE and at most 71, no fused signal reaches the upper clamp
\* of 95, and the high_confidence counter of scan_all_markets stays 0.
C28_EmittedConfidenceRange ==
    /\ \A c \in Slots :
          /\ IsSignal(call[c].result) =>
                /\ call[c].result.confidence >= MIN_SIGNAL_SCORE
                /\ call[c].result.confidence <= 71
          /\ IsSignal(call[c].signal) => call[c].signal.confidence < 95
    /\ scan.scan_results.high_confidence = 0
    /\ \A k \in DOMAIN scan.scan_results.top_signals :
          scan.scan_results.top_signals[k].confidence < HIGH_CONFIDENCE

\* A finished scan that counted a signal of confidence 71.
C28_Witness ==
    /\ scan.pc = "done"
    /\ scan.scan_results.top_signals # <<>>
    /\ scan.scan_results.top_signals[1].confidence = 71
    /\ scan.scan_results.forex_count + scan.scan_results.crypto_count >= 1

\* =================================================================
\* The news cache, checked under SpecNews
\* =================================================================
\* C29: get_cached_news returns a cached entry only if the entry was stored
\* less than cache_timeout seconds before the call; an older entry, of
\* whatever age, is not served.
C29_CacheFreshness ==
    (news_call # NotCalled /\ news_call.from_cache) => news_call.age < cache_timeout

\* =================================================================
\* The task scheduler, checked under SpecScheduler
\* =================================================================
Executed(name) ==
    name \in DOMAIN loop.running /\ loop.running[name].phase = "done"

\* C30: after an execution by _run_task, completed or raised, the task's
\* run_count and error_count together have grown by exactly one, and an
\* enabled interval or daily task has a next_run after the end of the
\* execution; when a tick is over every task that was due in it has been run,
\* whichever of them raised; and no task is executed while it is disabled.
C30_SchedulerProgress ==
    /\ \A name \in Range(TaskNames) :
          Executed(name) =>
              /\ tasks[name].run_count + tasks[name].error_count
                    = loop.running[name].before + 1
              /\ (tasks[name].enabled
                    /\ tasks[name].schedule_type \in {"interval", "daily"})
                    => tasks[name].next_run > loop.running[name].finished
    /\ loop.pc = "sleep" =>
          \A name \in Range(loop.tasks_to_run) : Executed(name)
    /\ \A name \in DOMAIN loop.running :
          loop.running[name].phase # "created" => loop.running[name].enabled_at_start

====
